---- MODULE Spec2Model ----
(***************************************************************************)
(* A model of file_tab_opener's folder-tab-opening engine:                 *)
(*   opener_win.open_folders_as_tabs  (three cascading tiers)              *)
(*   opener_mac.open_folders_as_tabs  (script tier, separate windows)      *)
(* Text (paths, messages) is a sequence of characters, each a string: an    *)
(* ASCII character is itself, any other character is named by its code     *)
(* point ("U+30A2"). str.lower(), str.strip(), substring search and         *)
(* os.path.expanduser are computed as the code computes them.               *)
(*                                                                         *)
(* Environment assumptions: the callbacks on_progress / on_error do not    *)
(* raise (the GUI shell's on_error swallows TclError, main_window.py       *)
(* 176-193); BaseException (KeyboardInterrupt) is not modelled.            *)
(***************************************************************************)
EXTENDS Integers, Sequences, FiniteSets, TLC

VARIABLES
    platform,      \* "win" | "mac": which opener module is loaded
    lang,          \* i18n._current_lang
    pywinauto,     \* TRUE iff importlib finds the pywinauto package
    pc,            \* position of the one call of open_folders_as_tabs
    paths_in,      \* argument paths, as the caller passed it
    hasProgress,   \* on_progress is not None
    hasError,      \* on_error is not None
    window_rect,   \* argument window_rect: <<>> is None, else <<x, y, w, h>>
    paths,         \* the local list the tiers work on (deduplicated / expanded)
    i,             \* loop index of the per-path loop in progress (1-indexed)
    result,        \* "none" while running, then "True" | "False"
    trace,         \* every OS interaction and callback call, in order
    invoked,       \* every tier function called, in order, with its outcome
    run_result,    \* what _run_applescript returned: [success, error_msg]
    timeout,       \* argument timeout, in tenths of a second
    elapsed,       \* time.monotonic() - start of the wait loop in progress
    attempt,       \* Tier 1: the pass of "for attempt in range(3)" in progress
    expired,       \* the waits of this call that ran into their timeout
    current_tab,   \* TabGroupSection.current_tab_name
    opening,       \* tab_group_section._opening of the section on display
    workers,       \* the threads started for do_open, in order of their start
    after,         \* the callbacks given to root.after and not yet run
    handed,        \* the calls of the opener's entry points made so far
    boxes,         \* the message boxes opened so far
    clicks,        \* the Open clicks so far
    built,         \* the script function that was applied ("none": not yet)
    script,        \* the text it returned
    keys,          \* Tier 1: what was sent to the new tab's address bar so far
    called,        \* the function that was applied on its own ("none": not yet)
    input,         \* its arguments and what its surroundings answer
    returned,      \* what it returned
    history,       \* ConfigManager.data.history
    now,           \* datetime.now(), in seconds
    added,         \* the new paths given to add_history so far
    stmts,         \* osascript: the lines of the script it was given
    line,          \* osascript: the line of the script to run next (0: not run)
    left,          \* osascript: the passes left of the repeat loop in progress
    loops,         \* osascript: per repeat loop entered, what happened in it
    ended,         \* osascript: "none" while running, then "ok" | "error"
    tab_groups,    \* ConfigManager.data.tab_groups
    tab_names,     \* TabView._names
    tab_current,   \* TabView._current
    current_tab_name, \* TabGroupSection.current_tab_name
    geom_entries,  \* the texts of the four geometry entry fields
    entered        \* the groups the user entered geometry values for

\* the state of the waits, which only the wait-level actions change
waitVars == <<timeout, elapsed, attempt, expired>>

\* everything outside the record of one call of the engine
\* the state of the GUI shell
shellVars == <<current_tab, opening, workers, after, handed, boxes, clicks>>

\* a script of opener_mac and the function that built it
scriptVars == <<built, script>>

\* a function applied on its own
unitVars == <<called, input, returned>>

\* the history of ConfigManager and the clock its entries are stamped with
historyVars == <<history, now, added>>

\* the run of a generated script by osascript
runVars == <<stmts, line, left, loops, ended>>

\* the state of what is modelled on its own beside the engine and the shell
\* the tab groups of the config and the tab bar of the GUI
tabVars == <<tab_groups, tab_names, tab_current, current_tab_name, geom_entries, entered>>

laterVars == <<runVars, tabVars>>

LaterInit ==
    /\ stmts = <<>>
    /\ line = 0
    /\ left = 0
    /\ loops = <<>>
    /\ ended = "none"
    /\ tab_groups = <<>>
    /\ tab_names = <<>>
    /\ tab_current = <<>>
    /\ current_tab_name = <<>>
    /\ geom_entries = <<>>
    /\ entered = {}

restVars == <<unitVars, historyVars, laterVars>>

outside == <<waitVars, shellVars, scriptVars, restVars, keys>>

vars == <<platform, lang, pywinauto, pc, paths_in, hasProgress, hasError,
          window_rect, paths, i, result, trace, invoked, run_result, outside>>

----------------------------------------------------------------------------
(* Bounds *)

\* longest path list passed to open_folders_as_tabs
MaxPaths == 3

\* longest path list of the calls that explore the script tier's messages
MaxPathsClassify == 1

----------------------------------------------------------------------------
(* Text *)

UpperChars ==
    <<"A", "B", "C", "D", "E", "F", "G", "H", "I", "J", "K", "L", "M", "N", "O", "P", "Q", "R", "S", "T", "U", "V", "W", "X", "Y", "Z">>
LowerChars ==
    <<"a", "b", "c", "d", "e", "f", "g", "h", "i", "j", "k", "l", "m", "n", "o", "p", "q", "r", "s", "t", "u", "v", "w", "x", "y", "z">>

\* str.lower() on one character (cased letters of the modelled alphabet)
LowerChar(c) ==
    IF \E k \in 1..Len(UpperChars) : UpperChars[k] = c
    THEN LowerChars[CHOOSE k \in 1..Len(UpperChars) : UpperChars[k] = c]
    ELSE c

\* the mutant of Lower: the message is searched as it is
LowerOmitted(s) == s

\* str.lower()
Lower(s) == [k \in 1..Len(s) |-> LowerChar(s[k])]

IsSpace(c) == c \in {" ", "\n", "\t", "\r"}

\* str.strip(): leading and trailing whitespace removed
Strip(s) ==
    LET keep == {k \in 1..Len(s) : ~IsSpace(s[k])}
    IN  IF keep = {} THEN <<>>
        ELSE LET lo == CHOOSE k \in keep : \A m \in keep : k <= m
                 hi == CHOOSE k \in keep : \A m \in keep : k >= m
             IN  SubSeq(s, lo, hi)

\* kw in s  (Python substring test)
Contains(s, kw) ==
    \E k \in 0..(Len(s) - Len(kw)) : SubSeq(s, k + 1, k + Len(kw)) = kw

\* os.path.expanduser with HOME = HomeDir: "~" and "~/..." are expanded,
\* "~user" of an unknown user and every other path are returned unchanged
HomeDir == <<"/", "h">>

expanduser(p) ==
    IF p = <<>> \/ p[1] # "~" THEN p
    ELSE IF Len(p) = 1 \/ p[2] = "/" THEN HomeDir \o SubSeq(p, 2, Len(p))
    ELSE p

\* list(dict.fromkeys(ps)): first occurrences, in order
RECURSIVE DedupFrom(_, _)
DedupFrom(ps, seen) ==
    IF ps = <<>> THEN <<>>
    ELSE IF Head(ps) \in seen THEN DedupFrom(Tail(ps), seen)
    ELSE <<Head(ps)>> \o DedupFrom(Tail(ps), seen \cup {Head(ps)})

Dedup(ps) == DedupFrom(ps, {})

----------------------------------------------------------------------------
(* Program constants and inputs *)

\* opener_mac._ACCESSIBILITY_KEYWORDS
_ACCESSIBILITY_KEYWORDS ==
    { <<"a", "s", "s", "i", "s", "t", "i", "v", "e">>,
      <<"U+30A2", "U+30AF", "U+30BB", "U+30B7", "U+30D3", "U+30EA", "U+30C6", "U+30A3">>,
      <<"U+8F85", "U+52A9", "U+529F", "U+80FD">>,
      <<"U+BCF4", "U+C870">> }

SUPPORTED_LANGS == {"en", "ja", "ko", "zh_TW", "zh_CN"}

\* i18n._STRINGS["error.accessibility_required"], each text cut after its
\* first sentence
AccessibilityText ==
    [ en    |-> <<"A", "c", "c", "e", "s", "s", "i", "b", "i", "l", "i", "t", "y", " ", "p", "e", "r", "m", "i", "s", "s", "i", "o", "n", " ", "r", "e", "q", "u", "i", "r", "e", "d", ".">>,
      ja    |-> <<"U+30A2", "U+30AF", "U+30BB", "U+30B7", "U+30D3", "U+30EA", "U+30C6", "U+30A3", "U+306E", "U+8A31", "U+53EF", "U+304C", "U+5FC5", "U+8981", "U+3067", "U+3059", "U+3002">>,
      ko    |-> <<"U+C190", "U+C26C", "U+C6B4", " ", "U+C0AC", "U+C6A9", " ", "U+AD8C", "U+D55C", "U+C774", " ", "U+D544", "U+C694", "U+D569", "U+B2C8", "U+B2E4", ".">>,
      zh_TW |-> <<"U+9700", "U+8981", "U+8F14", "U+52A9", "U+4F7F", "U+7528", "U+6B0A", "U+9650", "U+3002">>,
      zh_CN |-> <<"U+9700", "U+8981", "U+8F85", "U+52A9", "U+529F", "U+80FD", "U+6743", "U+9650", "U+3002">> ]

\* i18n.t("error.accessibility_required"): the current language's text, the
\* English one when the language has none
t_accessibility_required ==
    IF lang \in DOMAIN AccessibilityText /\ AccessibilityText[lang] # <<>>
    THEN AccessibilityText[lang]
    ELSE AccessibilityText["en"]

TimedOutMsg ==
    <<"A", "p", "p", "l", "e", "S", "c", "r", "i", "p", "t", " ", "e", "x", "e", "c", "u", "t", "i", "o", "n", " ", "t", "i", "m", "e", "d", " ", "o", "u", "t">>
NotFoundMsg ==
    <<"o", "s", "a", "s", "c", "r", "i", "p", "t", " ", "n", "o", "t", " ", "f", "o", "u", "n", "d", " ", "(", "n", "o", "t", " ", "m", "a", "c", "O", "S", "?", ")">>
ErrPrefix ==
    <<"A", "p", "p", "l", "e", "S", "c", "r", "i", "p", "t", " ", "e", "r", "r", "o", "r", ":", " ">>

\* str(e) of an OSError other than FileNotFoundError raised by subprocess.run
ScriptExcText ==
    <<"[", "E", "r", "r", "n", "o", " ", "1", "3", "]", " ", "P", "e", "r", "m", "i", "s", "s", "i", "o", "n", " ", "d", "e", "n", "i", "e", "d", ":", " ", "'", "o", "s", "a", "s", "c", "r", "i", "p", "t", "'">>
\* str(e) of an exception raised while one path is opened
PathExcText ==
    <<"[", "E", "r", "r", "n", "o", " ", "2", "]", " ", "N", "o", " ", "s", "u", "c", "h", " ", "f", "i", "l", "e">>

\* the folder paths a caller passes
PathNames == { <<"/", "a">>, <<"/", "b">>, <<"~", "/", "c">> }

RECURSIVE SeqsUpTo(_, _)
SeqsUpTo(S, n) ==
    IF n = 0 THEN {<<>>}
    ELSE LET shorter == SeqsUpTo(S, n - 1)
         IN  shorter \cup {Append(s, x) : s \in shorter, x \in S}

PathLists == SeqsUpTo(PathNames, MaxPaths)

\* window_rect arguments: None and one rectangle (x, y, w, h)
WindowRects == { <<>>, <<100, 200, 800, 600>> }

\* what osascript writes to stderr, in the calls that explore the messages:
\* each keyword, in lower case, upper case and capitalised, cut short, and
\* texts without a keyword; alone, or inside an osascript error line
StderrCores ==
    { <<>>,
      <<"s", "y", "n", "t", "a", "x", " ", "e", "r", "r", "o", "r">>,
      <<"a", "s", "s", "i", "s", "t", "i", "v", "e">>,
      <<"A", "S", "S", "I", "S", "T", "I", "V", "E">>,
      <<"A", "s", "s", "i", "s", "t", "i", "v", "e", " ", "a", "c", "c", "e", "s", "s">>,
      <<"a", "s", "s", "i", "s", "t", "i", "v", " ", "e">>,
      <<"U+30A2", "U+30AF", "U+30BB", "U+30B7", "U+30D3", "U+30EA", "U+30C6", "U+30A3">>,
      <<"U+30A2", "U+30AF", "U+30BB", "U+30B7", "U+30D3", "U+30EA", "U+30C6">>,
      <<"U+8F85", "U+52A9", "U+529F", "U+80FD">>,
      <<"U+8F14", "U+52A9", "U+4F7F", "U+7528">>,
      <<"U+BCF4", "U+C870">>,
      <<"U+BCF4">> }

StderrWide ==
    { pre \o core \o suf :
        pre \in { <<>>, <<"e", "x", "e", "c", "u", "t", "i", "o", "n", " ", "e", "r", "r", "o", "r", ":", " ">> },
        core \in StderrCores,
        suf \in { <<>>, <<" ", "(", "-", "1", "7", "1", "9", ")", "\n">> } }

\* what osascript writes to stderr, in the calls of the whole engine
StderrBasic ==
    { <<>>,
      <<"s", "y", "n", "t", "a", "x", " ", "e", "r", "r", "o", "r", "\n">>,
      <<"N", "o", "t", " ", "a", "l", "l", "o", "w", "e", "d", " ", "A", "s", "s", "i", "s", "t", "i", "v", "e", " ", "a", "c", "c", "e", "s", "s", ".", "\n">> }

----------------------------------------------------------------------------
(* The record of one call *)

\* one entry of trace. kind: "progress" and "error" are calls of on_progress
\* and on_error; "spawn" is subprocess.Popen of the file manager for a path
\* (ok: the process was created); "find" is new-window detection (ok: a
\* window was found in time); "script" is the run of the tab script by
\* osascript; "import" is the import of pywinauto; "tab" is the new-tab key
\* sequence for a path (ok: the sequence ran to its end); "rect" is
\* _apply_window_rect on a detected window.
Ev(kind, tier, idx, total, path, msg, ok) ==
    [kind |-> kind, tier |-> tier, idx |-> idx, total |-> total,
     path |-> path, msg |-> msg, ok |-> ok]

\* if on_progress: on_progress(idx, len(paths), path)
Progress(tier, idx, path) ==
    IF hasProgress
    THEN <<Ev("progress", tier, idx, Len(paths), path, <<>>, TRUE)>>
    ELSE <<>>

\* if on_error: on_error(path, msg). idx is the pass of the per-path loop that
\* makes the call, 0 when the call is made outside such a loop
Error(tier, idx, path, msg) ==
    IF hasError
    THEN <<Ev("error", tier, idx, 0, path, msg, TRUE)>>
    ELSE <<>>

Spawn(tier, idx, path, ok) == <<Ev("spawn", tier, idx, 0, path, <<>>, ok)>>

Tab(tier, idx, path, ok) == <<Ev("tab", tier, idx, 0, path, <<>>, ok)>>

\* hwnd = _find_new_explorer_hwnd(before_hwnds, ...): ok iff a handle came back
Find(tier, idx, found) == <<Ev("find", tier, idx, 0, <<>>, <<>>, found)>>

\* if window_rect: _apply_window_rect(hwnd, window_rect)
Rect(tier, idx) ==
    IF window_rect # <<>>
    THEN <<Ev("rect", tier, idx, 0, <<>>, <<>>, TRUE)>>
    ELSE <<>>

\* the tier function fn is called with the list ps
Invoke(tier, fn, ps) ==
    <<[tier |-> tier, fn |-> fn, paths |-> ps, out |-> "running"]>>

\* the tier function that is running ends: "returned", "failed" (reported
\* failure) or "raised"
Ended(out) ==
    IF invoked = <<>> THEN invoked
    ELSE [invoked EXCEPT ![Len(invoked)].out = out]

\* return v from open_folders_as_tabs
Return(v) ==
    /\ pc' = "done"
    /\ result' = v

args == <<paths_in, hasProgress, hasError, window_rect>>
env == <<platform, lang, pywinauto>>

----------------------------------------------------------------------------
(* The caller *)

Init ==
    /\ platform \in {"win", "mac"}
    /\ lang \in (IF platform = "mac" THEN SUPPORTED_LANGS ELSE {"en"})
    /\ pywinauto \in (IF platform = "win" THEN BOOLEAN ELSE {FALSE})
    /\ pc = "idle"
    /\ paths_in = <<>>
    /\ hasProgress = FALSE
    /\ hasError = FALSE
    /\ window_rect = <<>>
    /\ paths = <<>>
    /\ i = 0
    /\ result = "none"
    /\ trace = <<>>
    /\ invoked = <<>>
    /\ run_result = [success |-> FALSE, error_msg |-> <<>>]
    /\ timeout = 0
    /\ elapsed = 0
    /\ attempt = 0
    /\ expired = {}
    /\ current_tab = "work"
    /\ opening = FALSE
    /\ workers = <<>>
    /\ after = <<>>
    /\ handed = {}
    /\ boxes = {}
    /\ clicks = 0
    /\ built = "none"
    /\ script = <<>>
    /\ keys = <<>>
    /\ called = "none"
    /\ input = [fn |-> "none"]
    /\ returned = <<>>
    /\ history = <<>>
    /\ now = 0
    /\ added = 0
    /\ LaterInit

\* open_folders_as_tabs(ps, on_progress, on_error, timeout, window_rect), with
\* ps one of lists
CallWith(lists) ==
    /\ pc = "idle"
    /\ \E ps \in lists, hp \in BOOLEAN, he \in BOOLEAN, wr \in WindowRects :
        /\ paths_in' = ps
        /\ hasProgress' = hp
        /\ hasError' = he
        /\ window_rect' = wr
    /\ pc' = "entry"
    /\ UNCHANGED <<outside, env, paths, i, result, trace, invoked, run_result>>

Call == CallWith(PathLists)

----------------------------------------------------------------------------
(* opener_win.open_folders_as_tabs *)

\* except Exception as e: log.warning(...) of a tier of open_folders_as_tabs:
\* the callback calls it makes (none: the failure is logged only)
Win_TierExceptSurfaced(tier) == Error(tier, 0, paths[1], PathExcText)

Win_TierExcept(tier) == <<>>

\* Tier 1 raised (or was not available): _open_tabs_ctypes is called
ToTier2 ==
    /\ pc' = "t2_spawn"
    /\ result' = result
    /\ invoked' = Ended("raised") \o Invoke(2, "_open_tabs_ctypes", paths)

\* Tier 2 raised: _open_tabs_separate is called
ToTier3 ==
    /\ pc' = "t3_loop"
    /\ result' = result
    /\ i' = 1
    /\ invoked' = Ended("raised") \o Invoke(3, "_open_tabs_separate", paths)

\* the mutant of Win_Entry: the test of the empty list is missing
Win_EntryEmptyUnchecked ==
    /\ pc = "entry"
    /\ platform = "win"
    /\ paths' = Dedup(paths_in)
    /\ result' = result
    /\ IF pywinauto
       THEN /\ pc' = "t1_import"
            /\ invoked' = Invoke(1, "_open_tabs_pywinauto_uia", paths')
       ELSE /\ pc' = "t2_spawn"
            /\ invoked' = Invoke(2, "_open_tabs_ctypes", paths')
    /\ UNCHANGED <<outside, env, args, i, trace, run_result>>

\* the mutant of Win_Entry: the availability check is made by importing
\* pywinauto
Win_EntryCheckImports ==
    /\ pc = "entry"
    /\ platform = "win"
    /\ IF paths_in = <<>>
       THEN /\ Return("False")
            /\ UNCHANGED <<paths, invoked, trace>>
       ELSE /\ paths' = Dedup(paths_in)
            /\ result' = result
            /\ trace' = trace \o <<Ev("import", 0, 0, 0, <<>>, <<>>, pywinauto)>>
            /\ IF pywinauto
               THEN /\ pc' = "t1_import"
                    /\ invoked' = Invoke(1, "_open_tabs_pywinauto_uia", paths')
               ELSE /\ pc' = "t2_spawn"
                    /\ invoked' = Invoke(2, "_open_tabs_ctypes", paths')
    /\ UNCHANGED <<outside, env, args, i, run_result>>

\* the empty-list test, the deduplication and the availability gate
Win_Entry ==
    /\ pc = "entry"
    /\ platform = "win"
    /\ IF paths_in = <<>>
       THEN /\ Return("False")
            /\ UNCHANGED <<paths, invoked>>
       ELSE /\ paths' = Dedup(paths_in)
            /\ result' = result
            /\ IF pywinauto
               THEN /\ pc' = "t1_import"
                    /\ invoked' = Invoke(1, "_open_tabs_pywinauto_uia", paths')
               ELSE /\ pc' = "t2_spawn"
                    /\ invoked' = Invoke(2, "_open_tabs_ctypes", paths')
    /\ UNCHANGED <<outside, env, args, i, trace, run_result>>

\* Tier 1: from pywinauto import Application, keyboard
T1_Import ==
    /\ pc = "t1_import"
    /\ \E ok \in BOOLEAN :
        IF ok
        THEN /\ trace' = trace \o <<Ev("import", 1, 0, 0, <<>>, <<>>, TRUE)>>
             /\ pc' = "t1_spawn"
             /\ UNCHANGED <<result, invoked>>
        ELSE /\ trace' = trace \o <<Ev("import", 1, 0, 0, <<>>, <<>>, FALSE)>>
                               \o Win_TierExcept(1)
             /\ ToTier2
    /\ UNCHANGED <<outside, env, args, paths, i, run_result>>

\* Tier 1: the window snapshot and the spawn of the first path
T1_Spawn ==
    /\ pc = "t1_spawn"
    /\ \E ok \in BOOLEAN :
        IF ok
        THEN /\ trace' = trace \o Spawn(1, 1, paths[1], TRUE)
             /\ pc' = "t1_find"
             /\ UNCHANGED <<result, invoked>>
        ELSE /\ trace' = trace \o Spawn(1, 1, paths[1], FALSE) \o Win_TierExcept(1)
             /\ ToTier2
    /\ UNCHANGED <<outside, env, args, paths, i, run_result>>

\* Tier 1: new-window detection, the first ProgressEvent, the one-path return
T1_Find ==
    /\ pc = "t1_find"
    /\ \E found \in BOOLEAN :
        IF ~found
        THEN /\ trace' = trace \o Find(1, 1, FALSE) \o Win_TierExcept(1)
             /\ ToTier2
        ELSE /\ trace' = trace \o Find(1, 1, TRUE) \o Progress(1, 1, paths[1])
             /\ IF Len(paths) = 1
                THEN /\ Return("True")
                     /\ invoked' = Ended("returned")
                ELSE /\ pc' = "t1_connect"
                     /\ UNCHANGED <<result, invoked>>
    /\ UNCHANGED <<outside, env, args, paths, i, run_result>>

\* Tier 1: the UIA attach to the window and its address bar
T1_Connect ==
    /\ pc = "t1_connect"
    /\ \E ok \in BOOLEAN :
        IF ok
        THEN /\ pc' = "t1_loop"
             /\ i' = 2
             /\ UNCHANGED <<trace, result, invoked>>
        ELSE /\ trace' = trace \o Win_TierExcept(1)
             /\ ToTier2
             /\ UNCHANGED i
    /\ UNCHANGED <<outside, env, args, paths, run_result>>

\* the mutant of T1_Path: one try around the whole loop, so that the first
\* failing path ends the loop
T1_PathAborting ==
    /\ pc = "t1_loop"
    /\ i <= Len(paths)
    /\ \E ok \in BOOLEAN :
        IF ok
        THEN /\ trace' = trace \o Tab(1, i, paths[i], TRUE) \o Progress(1, i, paths[i])
             /\ i' = i + 1
        ELSE /\ trace' = trace \o Tab(1, i, paths[i], FALSE)
                               \o Error(1, i, paths[i], PathExcText)
             /\ i' = Len(paths) + 1
    /\ UNCHANGED <<outside, env, args, paths, pc, result, invoked, run_result>>

\* Tier 1: one pass of the loop over paths[1:], the new tab for paths[i]
T1_Path ==
    /\ pc = "t1_loop"
    /\ i <= Len(paths)
    /\ \E ok \in BOOLEAN :
        IF ok
        THEN trace' = trace \o Tab(1, i, paths[i], TRUE) \o Progress(1, i, paths[i])
        ELSE trace' = trace \o Tab(1, i, paths[i], FALSE)
                            \o Error(1, i, paths[i], PathExcText)
    /\ i' = i + 1
    /\ UNCHANGED <<outside, env, args, paths, pc, result, invoked, run_result>>

\* the mutant of T1_Finish: the return is missing, Tier 2 starts after Tier 1
\* has done its work
T1_FinishFallingThrough ==
    /\ pc = "t1_loop"
    /\ i > Len(paths)
    /\ trace' = trace \o Rect(1, 0)
    /\ pc' = "t2_spawn"
    /\ invoked' = Ended("returned") \o Invoke(2, "_open_tabs_ctypes", paths)
    /\ UNCHANGED <<outside, env, args, paths, i, result, run_result>>

\* Tier 1: after the loop, the window rectangle and return True
T1_Finish ==
    /\ pc = "t1_loop"
    /\ i > Len(paths)
    /\ trace' = trace \o Rect(1, 0)
    /\ Return("True")
    /\ invoked' = Ended("returned")
    /\ UNCHANGED <<outside, env, args, paths, i, run_result>>

\* Tier 2: the spawn of the first path, its ProgressEvent, the one-path return
T2_Spawn ==
    /\ pc = "t2_spawn"
    /\ \E ok \in BOOLEAN :
        IF ~ok
        THEN /\ trace' = trace \o Spawn(2, 1, paths[1], FALSE) \o Win_TierExcept(2)
             /\ ToTier3
        ELSE /\ trace' = trace \o Spawn(2, 1, paths[1], TRUE)
                               \o Progress(2, 1, paths[1])
             /\ IF Len(paths) = 1
                THEN /\ Return("True")
                     /\ invoked' = Ended("returned")
                     /\ UNCHANGED i
                ELSE /\ pc' = "t2_find"
                     /\ UNCHANGED <<result, invoked, i>>
    /\ UNCHANGED <<outside, env, args, paths, run_result>>

\* the mutant of T2_Find: the tier goes on without a window
T2_FindLenient ==
    /\ pc = "t2_find"
    /\ \E found \in BOOLEAN :
        /\ trace' = trace \o Find(2, 1, found)
        /\ pc' = "t2_loop"
        /\ i' = 2
        /\ UNCHANGED <<result, invoked>>
    /\ UNCHANGED <<outside, env, args, paths, run_result>>

\* Tier 2: new-window detection and the foregrounding of the window
T2_Find ==
    /\ pc = "t2_find"
    /\ \E found \in BOOLEAN :
        IF ~found
        THEN /\ trace' = trace \o Find(2, 1, FALSE) \o Win_TierExcept(2)
             /\ ToTier3
        ELSE /\ trace' = trace \o Find(2, 1, TRUE)
             /\ pc' = "t2_loop"
             /\ i' = 2
             /\ UNCHANGED <<result, invoked>>
    /\ UNCHANGED <<outside, env, args, paths, run_result>>

\* Tier 2: one pass of the loop over paths[1:], the key events for paths[i]
T2_Path ==
    /\ pc = "t2_loop"
    /\ i <= Len(paths)
    /\ \E ok \in BOOLEAN :
        IF ok
        THEN trace' = trace \o Tab(2, i, paths[i], TRUE) \o Progress(2, i, paths[i])
        ELSE trace' = trace \o Tab(2, i, paths[i], FALSE)
                            \o Error(2, i, paths[i], PathExcText)
    /\ i' = i + 1
    /\ UNCHANGED <<outside, env, args, paths, pc, result, invoked, run_result>>

\* Tier 2: after the loop, the window rectangle and return True
T2_Finish ==
    /\ pc = "t2_loop"
    /\ i > Len(paths)
    /\ trace' = trace \o Rect(2, 0)
    /\ Return("True")
    /\ invoked' = Ended("returned")
    /\ UNCHANGED <<outside, env, args, paths, i, run_result>>

\* the mutant of T3_Path: one try around the whole loop, so that the first
\* failing path ends the batch
T3_PathAborting ==
    /\ pc = "t3_loop"
    /\ i <= Len(paths)
    /\ \E ok \in BOOLEAN, found \in (IF window_rect # <<>> THEN BOOLEAN ELSE {FALSE}) :
        IF ok
        THEN /\ trace' = trace \o Spawn(3, i, paths[i], TRUE)
                               \o (IF found THEN Rect(3, i) ELSE <<>>)
                               \o Progress(3, i, paths[i])
             /\ i' = i + 1
        ELSE /\ trace' = trace \o Spawn(3, i, paths[i], FALSE)
                               \o Error(3, i, paths[i], PathExcText)
             /\ i' = Len(paths) + 1
    /\ UNCHANGED <<outside, env, args, paths, pc, result, invoked, run_result>>

\* Tier 3: one pass of the loop, the window of paths[i]. found: a window_rect
\* was given and new-window detection found the window within its timeout
T3_Path ==
    /\ pc = "t3_loop"
    /\ i <= Len(paths)
    /\ \E ok \in BOOLEAN, found \in (IF window_rect # <<>> THEN BOOLEAN ELSE {FALSE}) :
        IF ok
        THEN trace' = trace \o Spawn(3, i, paths[i], TRUE)
                            \o (IF window_rect # <<>> THEN Find(3, i, found) ELSE <<>>)
                            \o (IF found THEN Rect(3, i) ELSE <<>>)
                            \o Progress(3, i, paths[i])
        ELSE trace' = trace \o Spawn(3, i, paths[i], FALSE)
                            \o Error(3, i, paths[i], PathExcText)
    /\ i' = i + 1
    /\ UNCHANGED <<outside, env, args, paths, pc, result, invoked, run_result>>

\* the mutant of T3_Finish: the tier reports failure when a path failed
T3_FinishReporting ==
    /\ pc = "t3_loop"
    /\ i > Len(paths)
    /\ Return(IF \E k \in 1..Len(trace) : trace[k].tier = 3 /\ ~trace[k].ok
              THEN "False" ELSE "True")
    /\ invoked' = Ended("returned")
    /\ UNCHANGED <<outside, env, args, paths, i, trace, run_result>>

\* Tier 3: return True after the loop
T3_Finish ==
    /\ pc = "t3_loop"
    /\ i > Len(paths)
    /\ Return("True")
    /\ invoked' = Ended("returned")
    /\ UNCHANGED <<outside, env, args, paths, i, trace, run_result>>

----------------------------------------------------------------------------
(* opener_mac.open_folders_as_tabs *)

\* how the run of osascript ends
ScriptOutcomes == {"exit0", "nonzero", "timeout", "notfound", "exception"}

\* _run_applescript: (success, error_message); err is what osascript wrote to
\* stderr. Not defined for "exception" (any other exception passes through)
_run_applescript(outcome, err) ==
    CASE outcome = "exit0"    -> [success |-> TRUE,  error_msg |-> Strip(err)]
      [] outcome = "nonzero"  -> [success |-> FALSE, error_msg |-> Strip(err)]
      [] outcome = "timeout"  -> [success |-> FALSE, error_msg |-> TimedOutMsg]
      [] outcome = "notfound" -> [success |-> FALSE, error_msg |-> NotFoundMsg]

\* any(kw in error_msg.lower() for kw in _ACCESSIBILITY_KEYWORDS)
IsAccessibilityError(error_msg) ==
    \E kw \in _ACCESSIBILITY_KEYWORDS : Contains(Lower(error_msg), kw)

\* the mutant of OnScriptFailure: one ErrorEvent for every path of the batch
OnScriptFailurePerPath(error_msg) ==
    IF hasError
    THEN [k \in 1..Len(paths) |->
            Ev("error", 1, 0, 0, paths[k], ErrPrefix \o error_msg, TRUE)]
    ELSE <<>>

\* the else branch of the script tier: the ErrorEvent of a reported failure
OnScriptFailure(error_msg) ==
    IF IsAccessibilityError(error_msg)
    THEN Error(1, 0, paths[1], t_accessibility_required)
    ELSE Error(1, 0, paths[1], ErrPrefix \o error_msg)

\* the mutant of OnScriptSuccess: one ProgressEvent per distinct path
OnScriptSuccessDistinct ==
    IF hasProgress
    THEN [k \in 1..Len(Dedup(paths)) |->
            Ev("progress", 1, k, Len(Dedup(paths)), Dedup(paths)[k], <<>>, TRUE)]
    ELSE <<>>

\* the success branch of the script tier: one ProgressEvent per path
OnScriptSuccess ==
    IF hasProgress
    THEN [k \in 1..Len(paths) |->
            Ev("progress", 1, k, Len(paths), paths[k], <<>>, TRUE)]
    ELSE <<>>

\* the mutant of ToSeparate: the failed script tier is not followed by the
\* fallback, the call returns at once
ToSeparateSkipped(out) ==
    /\ Return("True")
    /\ i' = i
    /\ invoked' = Ended(out)

\* the script tier failed: _open_separate is called
ToSeparate(out) ==
    /\ pc' = "m_sep"
    /\ result' = result
    /\ i' = 1
    /\ invoked' = Ended(out) \o Invoke(2, "_open_separate", paths)

\* the empty-list test, the expansion of the paths, the build of the script
Mac_Entry ==
    /\ pc = "entry"
    /\ platform = "mac"
    /\ IF paths_in = <<>>
       THEN /\ Return("False")
            /\ UNCHANGED <<paths, invoked>>
       ELSE /\ paths' = [k \in 1..Len(paths_in) |-> expanduser(paths_in[k])]
            /\ pc' = "m_script"
            /\ result' = result
            /\ invoked' = Invoke(1, "_run_applescript", paths')
    /\ UNCHANGED <<outside, env, args, i, trace, run_result>>

\* the script tier: the run of the script, whose stderr is one of pool, and
\* the handling of its result
Mac_ScriptFrom(pool) ==
    /\ pc = "m_script"
    /\ \E outcome \in ScriptOutcomes, err \in pool :
        IF outcome = "exception"
        THEN /\ trace' = trace \o <<Ev("script", 1, 0, 0, <<>>, <<>>, FALSE)>>
                               \o Error(1, 0, paths[1], ScriptExcText)
             /\ ToSeparate("raised")
             /\ UNCHANGED run_result
        ELSE /\ run_result' = _run_applescript(outcome, err)
             /\ IF run_result'.success
                THEN /\ trace' = trace \o <<Ev("script", 1, 0, 0, <<>>, <<>>, TRUE)>>
                                       \o OnScriptSuccess
                     /\ Return("True")
                     /\ invoked' = Ended("returned")
                     /\ UNCHANGED i
                ELSE /\ trace' = trace \o <<Ev("script", 1, 0, 0, <<>>, <<>>, FALSE)>>
                                       \o OnScriptFailure(run_result'.error_msg)
                     /\ ToSeparate("failed")
    /\ UNCHANGED <<outside, env, args, paths>>

Mac_Script == Mac_ScriptFrom(StderrBasic)

\* _open_separate: one pass of the loop, the window of paths[i]
Mac_SepPath ==
    /\ pc = "m_sep"
    /\ i <= Len(paths)
    /\ \E ok \in BOOLEAN :
        IF ok
        THEN trace' = trace \o Spawn(2, i, paths[i], TRUE) \o Progress(2, i, paths[i])
        ELSE trace' = trace \o Spawn(2, i, paths[i], FALSE)
                            \o Error(2, i, paths[i], PathExcText)
    /\ i' = i + 1
    /\ UNCHANGED <<outside, env, args, paths, pc, result, invoked, run_result>>

\* _open_separate: return True after the loop
Mac_SepFinish ==
    /\ pc = "m_sep"
    /\ i > Len(paths)
    /\ Return("True")
    /\ invoked' = Ended("returned")
    /\ UNCHANGED <<outside, env, args, paths, i, trace, run_result>>

----------------------------------------------------------------------------
(* The engine: one call of open_folders_as_tabs on either platform *)

Next ==
    \/ Call
    \/ Win_Entry
    \/ T1_Import
    \/ T1_Spawn
    \/ T1_Find
    \/ T1_Connect
    \/ T1_Path
    \/ T1_Finish
    \/ T2_Spawn
    \/ T2_Find
    \/ T2_Path
    \/ T2_Finish
    \/ T3_Path
    \/ T3_Finish
    \/ Mac_Entry
    \/ Mac_Script
    \/ Mac_SepPath
    \/ Mac_SepFinish

Spec == Init /\ [][Next]_vars

----------------------------------------------------------------------------
(* The script tier of macOS over the wide set of messages, for short lists *)

ShortLists == SeqsUpTo(PathNames, MaxPathsClassify) \ {<<>>}

CallShort == CallWith(ShortLists)

Mac_ScriptWide == Mac_ScriptFrom(StderrWide)

InitClassify == Init /\ platform = "mac"

NextClassify ==
    \/ CallShort
    \/ Mac_Entry
    \/ Mac_ScriptWide
    \/ Mac_SepPath
    \/ Mac_SepFinish

SpecClassify == InitClassify /\ [][NextClassify]_vars

----------------------------------------------------------------------------
(* What the claims read from the record of a call *)

\* the tier whose function is the separate-windows fallback
FinalTier == IF platform = "mac" THEN 2 ELSE 3

FinalFns == {"_open_separate", "_open_tabs_separate"}

\* the positions of trace that satisfy Test
Positions(Test(_)) == {k \in 1..Len(trace) : Test(trace[k])}

IsErrorEv(e) == e.kind = "error"
IsProgressEv(e) == e.kind = "progress"

\* qs is ps without its repeats, in the order of first occurrence
IsFirstOccurrenceList(qs, ps) ==
    /\ {qs[k] : k \in 1..Len(qs)} = {ps[k] : k \in 1..Len(ps)}
    /\ \A a, b \in 1..Len(qs) : a < b =>
         /\ qs[a] # qs[b]
         /\ (CHOOSE k \in 1..Len(ps) : ps[k] = qs[a] /\ \A m \in 1..(k - 1) : ps[m] # qs[a])
              < (CHOOSE k \in 1..Len(ps) : ps[k] = qs[b] /\ \A m \in 1..(k - 1) : ps[m] # qs[b])

----------------------------------------------------------------------------
(* Claims *)

\* C1: for every non-empty path list and every combination of tier failures
\* open_folders_as_tabs returns True and propagates no exception: a call that
\* has not returned can always take its next step, and a finished call has
\* returned True when the list was non-empty and False only when it was empty.
C1_ReturnsTrueUnlessEmpty ==
    /\ pc # "done" => ENABLED Next
    /\ pc = "done" =>
         /\ result \in {"True", "False"}
         /\ result = "False" <=> paths_in = <<>>
         /\ result = "True" <=> paths_in # <<>>

\* C1 witness: on Windows all three tiers ran, Tiers 1 and 2 raised, a path of
\* Tier 3 could not be spawned, and the call returned True.
C1_Witness ==
    /\ pc = "done"
    /\ platform = "win"
    /\ Len(invoked) = 3
    /\ \E k \in 1..Len(trace) :
         trace[k].kind = "spawn" /\ trace[k].tier = 3 /\ ~trace[k].ok
    /\ result = "True"

\* C2: open_folders_as_tabs([]) returns False with no OS interaction, no
\* callback call and no tier function called (on both platforms).
C2_EmptyListDoesNothing ==
    paths_in = <<>> =>
        /\ trace = <<>>
        /\ invoked = <<>>
        /\ result # "True"
        /\ pc \in {"idle", "entry", "done"}
        /\ pc = "done" => result = "False"

\* C2 witness: a call with the empty list and both callbacks has returned.
C2_Witness ==
    /\ pc = "done"
    /\ paths_in = <<>>
    /\ hasProgress
    /\ hasError
    /\ pywinauto

InvokedFinal == {k \in 1..Len(invoked) : invoked[k].fn \in FinalFns}

\* the primary tier function was called and raised or reported failure
PrimaryFailed ==
    /\ invoked # <<>>
    /\ invoked[1].tier = 1
    /\ invoked[1].out \in {"raised", "failed"}

C4_TiersInStrictOrder ==
    platform = "win" =>
        /\ \A k \in 1..Len(invoked) : invoked[k].tier \in {1, 2, 3}
        /\ \A k \in 1..(Len(invoked) - 1) :
             /\ invoked[k].tier + 1 = invoked[k + 1].tier
             /\ invoked[k].out = "raised"
        /\ invoked # <<>> =>
             /\ invoked[1].tier \in {1, 2}
             /\ invoked[1].tier = 1 <=> pywinauto
        /\ pc = "done" /\ invoked # <<>> => invoked[Len(invoked)].out = "returned"

\* C4 witness: all three tiers have started in one call that has returned.
C4_Witness ==
    /\ platform = "win"
    /\ pc = "done"
    /\ Len(invoked) = 3
    /\ Len(paths) = 3

IsOpenAttempt(e) == e.kind \in {"spawn", "tab"}

\* the paths of the open attempts of tr, in order
RECURSIVE AttemptPaths(_)
AttemptPaths(tr) ==
    IF tr = <<>> THEN <<>>
    ELSE (IF IsOpenAttempt(Head(tr)) THEN <<Head(tr).path>> ELSE <<>>)
            \o AttemptPaths(Tail(tr))

\* C5, as claimed: on Windows a call makes exactly one attempt to open each
\* distinct path during the whole call, in first-occurrence order.
C5_OneAttemptPerDistinctPath ==
    (platform = "win" /\ pc = "done" /\ paths_in # <<>>) =>
        IsFirstOccurrenceList(AttemptPaths(trace), paths_in)

\* C6, as claimed: over one call, every tier counted, the ProgressEvents are
\* 1-indexed with strictly increasing current_index in input order, so each
\* path has at most one ProgressEvent.
C6_ProgressStrictlyIncreasing ==
    LET P == Positions(IsProgressEv)
    IN  /\ \A k \in P :
             /\ trace[k].idx \in 1..Len(paths)
             /\ trace[k].total = Len(paths)
             /\ trace[k].path = paths[trace[k].idx]
        /\ \A a, b \in P : a < b => trace[a].idx < trace[b].idx

\* the entries of trace that pass k of the final tier's loop made
FinalOf(k, kind) ==
    {m \in 1..Len(trace) :
        /\ trace[m].tier = FinalTier
        /\ trace[m].idx = k
        /\ trace[m].kind = kind}

FinalTierRunning == pc \in {"t3_loop", "m_sep"}

FinalTierRan == invoked # <<>> /\ invoked[Len(invoked)].fn \in FinalFns

\* C7: in the final separate-windows tier, on both platforms, a failure at
\* path k never ends the batch: every pass made so far spawned once and gave
\* exactly one event (a ProgressEvent if the window was requested, otherwise an
\* ErrorEvent for that path, each when its callback is given), the loop goes on
\* after a failure, and once the tier returns every path has had its pass and
\* the result is True.
C7_FinalTierIsolatesFailures ==
    FinalTierRan =>
        /\ FinalTierRunning \/ pc = "done"
        /\ \A k \in 1..Len(paths) :
             LET done_k == IF pc = "done" THEN TRUE ELSE k < i
                 sp == FinalOf(k, "spawn")
                 pr == FinalOf(k, "progress")
                 er == FinalOf(k, "error")
             IN  IF ~done_k
                 THEN sp = {} /\ pr = {} /\ er = {}
                 ELSE /\ Cardinality(sp) = 1
                      /\ \A m \in sp :
                           /\ trace[m].path = paths[k]
                           /\ Cardinality(pr) = (IF trace[m].ok /\ hasProgress THEN 1 ELSE 0)
                           /\ Cardinality(er) = (IF ~trace[m].ok /\ hasError THEN 1 ELSE 0)
                      /\ \A m \in pr \cup er : trace[m].path = paths[k]
        /\ pc = "done" => result = "True"
        /\ (FinalTierRunning /\ i <= Len(paths)) => ENABLED (T3_Path \/ Mac_SepPath)

\* C7 witness: with both callbacks, the first of three paths failed in the
\* final tier, the other two were opened after it, and the tier returned.
C7_Witness ==
    /\ pc = "done"
    /\ FinalTierRan
    /\ hasProgress
    /\ hasError
    /\ Len(paths) = 3
    /\ FinalOf(1, "error") # {}
    /\ FinalOf(2, "progress") # {}
    /\ FinalOf(3, "progress") # {}

\* the calls of on_error made so far
ErrorCalls(tr) == SelectSeq(tr, IsErrorEv)

\* C8, as claimed: only the final tier's per-path failures reach on_error, a
\* failure in an earlier tier makes no on_error call.
C8_OnlyFinalTierErrors ==
    \A k \in Positions(IsErrorEv) : trace[k].tier = FinalTier

\* a step in which a tier function of Windows raises and the next tier starts
WinFallthroughStep ==
    /\ platform = "win"
    /\ invoked # <<>>
    /\ Len(invoked') = Len(invoked) + 1

\* C8, amended: on Windows a tier-level failure (Tier 1 or Tier 2 raising) is
\* only logged and superseded by the next tier, with no on_error call; the
\* ErrorEvents of Windows are per-path failures, surfaced in whichever tier
\* the path failed (Tier 1, Tier 2 or the final one); on macOS the failure of
\* the script tier is itself surfaced as an ErrorEvent for the first path.
C8_TierFailuresOnWindowsNotSurfaced ==
    /\ [][WinFallthroughStep => ErrorCalls(trace') = ErrorCalls(trace)]_vars
    /\ [](platform = "win" =>
            \A k \in Positions(IsErrorEv) :
                /\ trace[k].idx \in 2..Len(paths) \/ trace[k].tier = 3
                /\ trace[k].idx \in 1..Len(paths)
                /\ trace[k].path = paths[trace[k].idx]
                /\ \E m \in 1..(k - 1) :
                     /\ trace[m].kind \in {"spawn", "tab"}
                     /\ trace[m].tier = trace[k].tier
                     /\ trace[m].idx = trace[k].idx
                     /\ ~trace[m].ok)
    /\ []((platform = "mac" /\ hasError /\ Len(invoked) = 2) =>
            \E k \in Positions(IsErrorEv) :
                trace[k].tier = 1 /\ trace[k].path = paths[1])

\* C8 witness: on Windows, with on_error given, Tiers 1 and 2 both raised and
\* Tier 3 reported the failure of a path.
C8_Witness ==
    /\ platform = "win"
    /\ hasError
    /\ pc = "done"
    /\ Len(invoked) = 3
    /\ Positions(IsErrorEv) # {}

\* C9: on macOS, when the script tier fails (reported failure or exception),
\* exactly one tier-level ErrorEvent is delivered, for the first path of the
\* batch, before the fallback tier requests any window.
C9_OneTierErrorForFirstPath ==
    (platform = "mac" /\ hasError /\ PrimaryFailed) =>
        LET tierErrors == {k \in Positions(IsErrorEv) : trace[k].tier = 1}
        IN  /\ tierErrors = {2}
            /\ trace[1].kind = "script"
            /\ trace[2].path = expanduser(paths_in[1])
            /\ \A m \in 1..Len(trace) : trace[m].kind = "spawn" => m > 2

\* C9 witness: the script tier failed for a list of two paths whose first one
\* is expanded, on_error is given, and the fallback has requested a window.
C9_Witness ==
    /\ platform = "mac"
    /\ hasError
    /\ PrimaryFailed
    /\ Len(paths) >= 2
    /\ paths[1] # paths_in[1]
    /\ \E m \in 1..Len(trace) : trace[m].kind = "spawn" /\ trace[m].ok

\* error_msg holds a keyword when case is ignored, compared letter by letter
HasKeywordIgnoringCase(m) ==
    \E kw \in _ACCESSIBILITY_KEYWORDS :
        \E k \in 0..(Len(m) - Len(kw)) :
            \A j \in 1..Len(kw) : LowerChar(m[k + j]) = LowerChar(kw[j])

----------------------------------------------------------------------------
(* The waits of one call, pass by pass. Time is counted in tenths of a      *)
(* second. The file manager decides, at every poll, whether the awaited     *)
(* thing has happened; the callbacks and the record of the call are left    *)
(* out (they neither wait nor raise). Library waits that take their own     *)
(* timeout (subprocess.run, addr_edit.wait) end within it.                   *)

\* longest path list of the calls whose waits are followed
MaxPathsWait == 2

\* opener_win._WINDOW_FIND_TIMEOUT and _WINDOW_FIND_TIMEOUT_SHORT
_WINDOW_FIND_TIMEOUT == 100
_WINDOW_FIND_TIMEOUT_SHORT == 50
\* time.sleep(0.2) of _find_new_explorer_hwnd, time.sleep(0.1) of
\* _wait_for_navigation
FindSleep == 2
NavSleep == 1
\* for attempt in range(3)
AddrAttempts == 3

\* argument timeout: 0 s, 0.3 s and 15 s
Timeouts == {0, 3, 150}

WaitPathNames == { <<"/", "a">>, <<"/", "b">> }
WaitLists == SeqsUpTo(WaitPathNames, MaxPathsWait)

Min(a, b) == IF a < b THEN a ELSE b

\* what the wait-level actions leave alone
unkeyed == <<env, hasProgress, hasError, trace, invoked, run_result, shellVars,
             scriptVars, restVars>>

unwaited == <<unkeyed, keys>>

W_Call ==
    /\ pc = "idle"
    /\ \E ps \in WaitLists, to \in Timeouts, wr \in WindowRects :
        /\ paths_in' = ps
        /\ timeout' = to
        /\ window_rect' = wr
    /\ pc' = "entry"
    /\ UNCHANGED <<unwaited, paths, i, result, elapsed, attempt, expired>>

\* the mutant of _find_new_explorer_hwnd: a wait that ran into its timeout
\* starts again
FindRetrying(limit, appeared) ==
    IF elapsed < limit
    THEN IF appeared
         THEN [out |-> "found", elapsed |-> elapsed]
         ELSE [out |-> "waiting", elapsed |-> elapsed + FindSleep]
    ELSE [out |-> "waiting", elapsed |-> 0]

\* one pass of the while loop of _find_new_explorer_hwnd, or its exit:
\* "found" (return hwnd), "waiting" (sleep and test again), "none" (return
\* None). appeared: a window that was not there before is enumerated
_find_new_explorer_hwnd(limit, appeared) ==
    IF elapsed < limit
    THEN IF appeared
         THEN [out |-> "found", elapsed |-> elapsed]
         ELSE [out |-> "waiting", elapsed |-> elapsed + FindSleep]
    ELSE [out |-> "none", elapsed |-> elapsed]

\* one pass of the while loop of _wait_for_navigation, or its exit. focus:
\* "kept", "lost" or "gone" (has_keyboard_focus raised)
_wait_for_navigation(limit, focus) ==
    IF elapsed < limit
    THEN IF focus = "kept"
         THEN [out |-> "waiting", elapsed |-> elapsed + NavSleep]
         ELSE [out |-> "True", elapsed |-> elapsed]
    ELSE [out |-> "False", elapsed |-> elapsed]

W_WinEntry ==
    /\ pc = "entry"
    /\ platform = "win"
    /\ IF paths_in = <<>>
       THEN /\ Return("False")
            /\ UNCHANGED paths
       ELSE /\ paths' = Dedup(paths_in)
            /\ result' = result
            /\ pc' = IF pywinauto THEN "w1_spawn" ELSE "w2_spawn"
    /\ UNCHANGED <<unwaited, args, i, waitVars>>

\* Tier 1 up to the start of new-window detection
W1_Spawn ==
    /\ pc = "w1_spawn"
    /\ \E ok \in BOOLEAN :
        pc' = IF ok THEN "w1_find" ELSE "w2_spawn"
    /\ elapsed' = 0
    /\ UNCHANGED <<unwaited, args, paths, i, result, timeout, attempt, expired>>

\* Tier 1: new-window detection, within min(timeout, _WINDOW_FIND_TIMEOUT)
W1_Find ==
    /\ pc = "w1_find"
    /\ \E appeared \in BOOLEAN :
        LET r == _find_new_explorer_hwnd(Min(timeout, _WINDOW_FIND_TIMEOUT), appeared)
        IN  /\ elapsed' = r.elapsed
            /\ CASE r.out = "waiting" -> UNCHANGED <<pc, result, expired>>
                 [] r.out = "none" ->
                        /\ expired' = expired \cup {"find1"}
                        /\ pc' = "w2_spawn"
                        /\ UNCHANGED result
                 [] r.out = "found" ->
                        /\ UNCHANGED expired
                        /\ IF Len(paths) = 1
                           THEN Return("True")
                           ELSE pc' = "w1_connect" /\ UNCHANGED result
    /\ UNCHANGED <<unwaited, args, paths, i, timeout, attempt>>

\* Tier 1: the UIA attach
W1_Connect ==
    /\ pc = "w1_connect"
    /\ \E ok \in BOOLEAN :
        IF ok THEN pc' = "w1_loop" /\ i' = 2
              ELSE pc' = "w2_spawn" /\ UNCHANGED i
    /\ UNCHANGED <<unwaited, args, paths, result, waitVars>>

\* Tier 1: the head of one pass of the per-path loop, Ctrl+T
W1_Tab ==
    /\ pc = "w1_loop"
    /\ i <= Len(paths)
    /\ \E ok \in BOOLEAN :
        IF ok THEN pc' = "w1_attempt" /\ attempt' = 0 /\ keys' = <<"^t">> /\ UNCHANGED i
              ELSE i' = i + 1 /\ keys' = <<"raised">> /\ UNCHANGED <<pc, attempt>>
    /\ UNCHANGED <<unkeyed, args, paths, result, timeout, elapsed, expired>>

\* the mutant of W1_Attempt: a mismatch on the last attempt gives the path up
W1_AttemptStrict ==
    /\ pc = "w1_attempt"
    /\ IF attempt >= AddrAttempts
       THEN /\ \E enter \in BOOLEAN :
                IF enter THEN pc' = "w1_nav" /\ keys' = Append(keys, "{ENTER}") /\ UNCHANGED i
                         ELSE pc' = "w1_loop" /\ keys' = Append(keys, "raised") /\ i' = i + 1
            /\ elapsed' = 0
            /\ UNCHANGED <<attempt, expired>>
       ELSE \E ready \in BOOLEAN, out \in {"verified", "mismatch", "unverifiable", "raised"} :
            /\ expired' = IF ready THEN expired ELSE expired \cup {"ready"}
            /\ keys' = IF out = "raised" THEN Append(keys, "raised")
                       ELSE keys \o <<"^l", out>>
            /\ CASE out = "mismatch" /\ attempt + 1 < AddrAttempts ->
                        /\ attempt' = attempt + 1
                        /\ UNCHANGED <<pc, i, elapsed>>
                 [] out = "mismatch" /\ attempt + 1 >= AddrAttempts ->
                        /\ pc' = "w1_loop"
                        /\ i' = i + 1
                        /\ UNCHANGED <<attempt, elapsed>>
                 [] out = "raised" ->
                        /\ pc' = "w1_loop"
                        /\ i' = i + 1
                        /\ UNCHANGED <<attempt, elapsed>>
                 [] OTHER ->
                        /\ attempt' = AddrAttempts
                        /\ UNCHANGED <<pc, i, elapsed>>
    /\ UNCHANGED <<unkeyed, args, paths, result, timeout>>

\* Tier 1: one pass of "for attempt in range(3)", or its exit and Enter.
\* ready: addr_edit.wait("ready", timeout=3) returned in time; out: the
\* address bar's text is "verified" (it is not empty and its normpath is
\* norm_path), a "mismatch", "unverifiable" (get_value raised), or a key
\* could not be sent ("raised"). The break on "verified" and "unverifiable"
\* leaves the loop as its last pass does. keys: Ctrl+T, then Ctrl+L and the
\* outcome of each pass, then Enter; "raised" where a key could not be sent
W1_Attempt ==
    /\ pc = "w1_attempt"
    /\ IF attempt >= AddrAttempts
       THEN /\ \E enter \in BOOLEAN :
                IF enter THEN pc' = "w1_nav" /\ keys' = Append(keys, "{ENTER}") /\ UNCHANGED i
                         ELSE pc' = "w1_loop" /\ keys' = Append(keys, "raised") /\ i' = i + 1
            /\ elapsed' = 0
            /\ UNCHANGED <<attempt, expired>>
       ELSE \E ready \in BOOLEAN, out \in {"verified", "mismatch", "unverifiable", "raised"} :
            /\ expired' = IF ready THEN expired ELSE expired \cup {"ready"}
            /\ keys' = IF out = "raised" THEN Append(keys, "raised")
                       ELSE keys \o <<"^l", out>>
            /\ CASE out = "mismatch" ->
                        /\ attempt' = attempt + 1
                        /\ UNCHANGED <<pc, i, elapsed>>
                 [] out = "raised" ->
                        /\ pc' = "w1_loop"
                        /\ i' = i + 1
                        /\ UNCHANGED <<attempt, elapsed>>
                 [] OTHER ->
                        /\ attempt' = AddrAttempts
                        /\ UNCHANGED <<pc, i, elapsed>>
    /\ UNCHANGED <<unkeyed, args, paths, result, timeout>>

\* Tier 1: the wait for the navigation of the new tab, within timeout
W1_Nav ==
    /\ pc = "w1_nav"
    /\ \E focus \in {"kept", "lost", "gone"} :
        LET r == _wait_for_navigation(timeout, focus)
        IN  /\ elapsed' = r.elapsed
            /\ CASE r.out = "waiting" -> UNCHANGED <<pc, i, expired>>
                 [] r.out = "False" ->
                        /\ expired' = expired \cup {"navigation"}
                        /\ pc' = "w1_loop"
                        /\ i' = i + 1
                 [] r.out = "True" ->
                        /\ pc' = "w1_loop"
                        /\ i' = i + 1
                        /\ UNCHANGED expired
    /\ UNCHANGED <<unwaited, args, paths, result, timeout, attempt>>

W1_Done ==
    /\ pc = "w1_loop"
    /\ i > Len(paths)
    /\ Return("True")
    /\ UNCHANGED <<unwaited, args, paths, i, waitVars>>

\* Tier 2 up to the one-path return
W2_Spawn ==
    /\ pc = "w2_spawn"
    /\ \E ok \in BOOLEAN :
        IF ~ok
        THEN pc' = "w3_loop" /\ i' = 1 /\ UNCHANGED result
        ELSE /\ UNCHANGED i
             /\ IF Len(paths) = 1
                THEN Return("True")
                ELSE pc' = "w2_find" /\ UNCHANGED result
    /\ elapsed' = 0
    /\ UNCHANGED <<unwaited, args, paths, timeout, attempt, expired>>

\* Tier 2: new-window detection, within min(timeout, _WINDOW_FIND_TIMEOUT)
W2_Find ==
    /\ pc = "w2_find"
    /\ \E appeared \in BOOLEAN :
        LET r == _find_new_explorer_hwnd(Min(timeout, _WINDOW_FIND_TIMEOUT), appeared)
        IN  /\ elapsed' = r.elapsed
            /\ CASE r.out = "waiting" -> UNCHANGED <<pc, i, expired>>
                 [] r.out = "none" ->
                        /\ expired' = expired \cup {"find2"}
                        /\ pc' = "w3_loop"
                        /\ i' = 1
                 [] r.out = "found" ->
                        /\ pc' = "w2_loop"
                        /\ i' = 2
                        /\ UNCHANGED expired
    /\ UNCHANGED <<unwaited, args, paths, result, timeout, attempt>>

\* Tier 2: one pass of the per-path loop (key events and fixed sleeps)
W2_Path ==
    /\ pc = "w2_loop"
    /\ i <= Len(paths)
    /\ i' = i + 1
    /\ UNCHANGED <<unwaited, args, paths, pc, result, waitVars>>

W2_Done ==
    /\ pc = "w2_loop"
    /\ i > Len(paths)
    /\ Return("True")
    /\ UNCHANGED <<unwaited, args, paths, i, waitVars>>

\* Tier 3: the spawn of paths[i]; with a window_rect, detection follows
W3_Path ==
    /\ pc = "w3_loop"
    /\ i <= Len(paths)
    /\ \E ok \in BOOLEAN :
        IF ok /\ window_rect # <<>>
        THEN pc' = "w3_find" /\ UNCHANGED i
        ELSE i' = i + 1 /\ UNCHANGED pc
    /\ elapsed' = 0
    /\ UNCHANGED <<unwaited, args, paths, result, timeout, attempt, expired>>

\* Tier 3: new-window detection, within _WINDOW_FIND_TIMEOUT_SHORT
W3_Find ==
    /\ pc = "w3_find"
    /\ \E appeared \in BOOLEAN :
        LET r == _find_new_explorer_hwnd(_WINDOW_FIND_TIMEOUT_SHORT, appeared)
        IN  /\ elapsed' = r.elapsed
            /\ CASE r.out = "waiting" -> UNCHANGED <<pc, i, expired>>
                 [] r.out = "none" ->
                        /\ expired' = expired \cup {"find3"}
                        /\ pc' = "w3_loop"
                        /\ i' = i + 1
                 [] r.out = "found" ->
                        /\ pc' = "w3_loop"
                        /\ i' = i + 1
                        /\ UNCHANGED expired
    /\ UNCHANGED <<unwaited, args, paths, result, timeout, attempt>>

W3_Done ==
    /\ pc = "w3_loop"
    /\ i > Len(paths)
    /\ Return("True")
    /\ UNCHANGED <<unwaited, args, paths, i, waitVars>>

W_MacEntry ==
    /\ pc = "entry"
    /\ platform = "mac"
    /\ IF paths_in = <<>>
       THEN /\ Return("False")
            /\ UNCHANGED paths
       ELSE /\ paths' = [k \in 1..Len(paths_in) |-> expanduser(paths_in[k])]
            /\ pc' = "wm_script"
            /\ result' = result
    /\ UNCHANGED <<unwaited, args, i, waitVars>>

\* the script tier: subprocess.run(..., timeout=timeout) ends with the script
\* or, when the script hangs, with TimeoutExpired
WM_Script ==
    /\ pc = "wm_script"
    /\ \E outcome \in ScriptOutcomes :
        /\ expired' = IF outcome = "timeout" THEN expired \cup {"script"} ELSE expired
        /\ IF outcome = "exit0"
           THEN Return("True") /\ UNCHANGED i
           ELSE pc' = "wm_sep" /\ i' = 1 /\ UNCHANGED result
    /\ UNCHANGED <<unwaited, args, paths, timeout, elapsed, attempt>>

\* _open_separate: one pass of the loop (Popen does not wait for the window)
WM_SepPath ==
    /\ pc = "wm_sep"
    /\ i <= Len(paths)
    /\ i' = i + 1
    /\ UNCHANGED <<unwaited, args, paths, pc, result, waitVars>>

WM_SepDone ==
    /\ pc = "wm_sep"
    /\ i > Len(paths)
    /\ Return("True")
    /\ UNCHANGED <<unwaited, args, paths, i, waitVars>>

NextWait ==
    \/ W_Call
    \/ W_WinEntry
    \/ W1_Spawn
    \/ W1_Find
    \/ W1_Connect
    \/ W1_Tab
    \/ W1_Attempt
    \/ W1_Nav
    \/ W1_Done
    \/ W2_Spawn
    \/ W2_Find
    \/ W2_Path
    \/ W2_Done
    \/ W3_Path
    \/ W3_Find
    \/ W3_Done
    \/ W_MacEntry
    \/ WM_Script
    \/ WM_SepPath
    \/ WM_SepDone

\* the worker thread that makes the call keeps being scheduled, and sleep
\* returns
SpecWait == Init /\ [][NextWait]_vars /\ WF_vars(NextWait)

\* C11: every call of open_folders_as_tabs that has started eventually
\* returns, whatever the file manager does at each poll (the window never
\* appears, the address bar never matches, the focus is never lost, the
\* script hangs): each wait ends at its timeout or attempt count.
C11_EveryCallReturns == (pc = "entry") ~> (pc = "done")

\* a Windows call that returned although Tier 1's window never appeared, Tier
\* 2's neither, and a window of Tier 3 was not found either
C11_Witness ==
    /\ pc = "done"
    /\ platform = "win"
    /\ {"find1", "find2", "find3"} \subseteq expired

----------------------------------------------------------------------------
(* The GUI shell: MainWindow, TabGroupSection, HistorySection. Every        *)
(* handler of the UI thread runs to its end before the next one starts;     *)
(* a worker thread runs do_open beside them. The engine is, for the         *)
(* shell, a call that makes some on_error calls and then returns or         *)
(* raises. root.after on a destroyed window (TclError, ignored) is left     *)
(* out.                                                                      *)

\* Open clicks (both buttons) in one run of the application
MaxClicks == 2
\* on_error calls of one call of the engine
MaxErrors == 1

\* the file system: the existing directories (a file exists at /f); the share
\* //s/d answers, the same share spelled with backslashes does not
Dirs == { <<"/", "a">>, HomeDir \o <<"/", "c">>, <<"/", "/", "s", "/", "d">> }

\* Path(p).is_dir()
is_dir(p) == p \in Dirs

\* is_unc_path: p.replace("/", "\\").startswith("\\\\")
is_unc_path(p) ==
    LET normalized == [k \in 1..Len(p) |-> IF p[k] = "/" THEN "\\" ELSE p[k]]
    IN  Len(normalized) >= 2 /\ SubSeq(normalized, 1, 2) = <<"\\", "\\">>

\* the mutant of validate_paths: nothing is tested, every path is valid
validate_nothing(ps) ==
    [valid |-> [k \in 1..Len(ps) |-> expanduser(ps[k])], invalid |-> <<>>,
     asked |-> <<>>]

\* the mutant of validate_paths: a path is looked at once, its repeats are
\* dropped
validate_distinct(ps) ==
    LET ok(p) == is_unc_path(expanduser(p)) \/ is_dir(expanduser(p))
        kept  == SelectSeq(Dedup(ps), ok)
    IN  [valid   |-> [k \in 1..Len(kept) |-> expanduser(kept[k])],
         invalid |-> SelectSeq(Dedup(ps), LAMBDA p : ~ok(p)),
         asked   |-> SelectSeq([k \in 1..Len(ps) |-> expanduser(ps[k])],
                               LAMBDA x : ~is_unc_path(x))]

\* the mutant of validate_paths: Path.is_dir() decides for every path
validate_by_is_dir(ps) ==
    LET ok(p) == is_dir(expanduser(p))
        kept  == SelectSeq(ps, ok)
    IN  [valid   |-> [k \in 1..Len(kept) |-> expanduser(kept[k])],
         invalid |-> SelectSeq(ps, LAMBDA p : ~ok(p)),
         asked   |-> [k \in 1..Len(ps) |-> expanduser(ps[k])]]

\* validate_paths: (valid, invalid); valid holds the expanded paths. asked:
\* the paths Path.is_dir() is called for, those the "or" does not settle
validate_paths(ps) ==
    LET ok(p) == is_unc_path(expanduser(p)) \/ is_dir(expanduser(p))
        kept  == SelectSeq(ps, ok)
    IN  [valid   |-> [k \in 1..Len(kept) |-> expanduser(kept[k])],
         invalid |-> SelectSeq(ps, LAMBDA p : ~ok(p)),
         asked   |-> SelectSeq([k \in 1..Len(ps) |-> expanduser(ps[k])],
                               LAMBDA x : ~is_unc_path(x))]

\* config: the tab groups and their paths
TabGroups ==
    [ work  |-> << <<"~", "/", "c">>, <<"/", "n", "o">>, <<"\\", "\\", "s", "\\", "d">> >>,
      stale |-> << <<"/", "n", "o">>, <<"/", "f">> >>,
      blank |-> << >> ]

\* what the entry of the history section holds when Open is clicked, after
\* _get_selected_path and _strip_quotes
HistoryEntries ==
    { <<>>, <<"/", "f">>, <<"~", "/", "c">>, <<"/", "/", "s", "/", "d">> }

\* safe_after(callback): root.after(0, callback), the callback runs later on
\* the UI thread
safe_after(queue, callback) == Append(queue, callback)

\* a message box opened by the thread that runs the statement
Box(kind, thread, about) == [kind |-> kind, thread |-> thread, about |-> about]

\* a call of an entry point of the opener module
Handed(fn, thread, given, ps) ==
    [fn |-> fn, thread |-> thread, given |-> given, paths |-> ps]

\* what the handlers of the shell leave alone
unshelled == <<platform, pywinauto, pc, args, paths, i, result, trace, invoked,
               run_result, waitVars, scriptVars, restVars, keys>>

\* TabGroupSection._on_tab_changed
SwitchTab ==
    /\ \E name \in DOMAIN TabGroups \ {current_tab} : current_tab' = name
    /\ UNCHANGED <<unshelled, lang, opening, workers, after, handed, boxes, clicks>>

\* MainWindow._on_language_changed: set_language and _build_content, which
\* replaces tab_group_section by a new TabGroupSection (on the saved tab)
SwitchLanguage ==
    /\ \E code \in SUPPORTED_LANGS \ {lang} : lang' = code
    /\ opening' = FALSE
    /\ UNCHANGED <<unshelled, current_tab, workers, after, handed, boxes, clicks>>

\* threading.Thread(target=do_open, daemon=True).start()
StartWorker(v, given) ==
    workers' = Append(workers, [st |-> "started", given |-> given, valid |-> v, errs |-> 0])

\* the Open as Tabs button: TabGroupSection._on_open_as_tabs and
\* MainWindow._open_folders_as_tabs up to the start of the thread
ClickOpenAsTabs ==
    /\ clicks < MaxClicks
    /\ clicks' = clicks + 1
    /\ LET group == TabGroups[current_tab]
           v     == validate_paths(group)
       IN  IF opening
           THEN UNCHANGED <<opening, workers, handed, boxes>>
           ELSE IF group = <<>>
           THEN /\ boxes' = boxes \cup {Box("no_paths", "ui", <<>>)}
                /\ UNCHANGED <<opening, workers, handed>>
           ELSE /\ opening' = TRUE
                /\ boxes' = IF v.invalid # <<>>
                            THEN boxes \cup {Box("invalid_paths", "ui", v.invalid)}
                            ELSE boxes
                /\ IF v.valid = <<>>
                   THEN UNCHANGED workers
                   ELSE StartWorker(v.valid, group)
                /\ UNCHANGED handed
    /\ UNCHANGED <<unshelled, lang, current_tab, after>>

\* the Open button of the history section: HistorySection._on_open and
\* MainWindow._open_single_folder
ClickOpenHistory ==
    /\ clicks < MaxClicks
    /\ clicks' = clicks + 1
    /\ \E path \in HistoryEntries :
        LET expanded == expanduser(path)
        IN  IF path = <<>>
            THEN UNCHANGED <<handed, boxes>>
            ELSE IF is_unc_path(expanded) \/ is_dir(expanded)
            THEN /\ handed' = handed \cup
                        {Handed("open_single_folder", "ui", <<path>>, <<expanded>>)}
                 /\ UNCHANGED boxes
            ELSE /\ boxes' = boxes \cup {Box("invalid_path", "ui", <<path>>)}
                 /\ UNCHANGED handed
    /\ UNCHANGED <<unshelled, lang, current_tab, opening, workers, after>>

\* do_open, on the worker thread: the call of open_folders_as_tabs is made
DoOpenCall(k) ==
    /\ workers[k].st = "started"
    /\ workers' = [workers EXCEPT ![k].st = "calling"]
    /\ handed' = handed \cup
            {Handed("open_folders_as_tabs", "worker", workers[k].given, workers[k].valid)}
    /\ UNCHANGED <<unshelled, lang, current_tab, opening, after, boxes, clicks>>

\* the mutant of OnErrorLambda: the message box is opened by the caller of
\* on_error
OnErrorDirect(k) ==
    /\ after' = after
    /\ boxes' = boxes \cup {Box("error", "worker", <<>>)}

\* on_error=lambda p, e: safe_after(lambda: messagebox.showerror(...))
OnErrorLambda(k) ==
    /\ after' = safe_after(after, "showerror")
    /\ boxes' = boxes

\* the engine, inside the call, calls on_error
DoOpenError(k) ==
    /\ workers[k].st = "calling"
    /\ workers[k].errs < MaxErrors
    /\ workers' = [workers EXCEPT ![k].errs = @ + 1]
    /\ OnErrorLambda(k)
    /\ UNCHANGED <<unshelled, lang, current_tab, opening, handed, clicks>>

\* do_open: the call returns or raises; except and finally
DoOpenEnd(k) ==
    /\ workers[k].st = "calling"
    /\ workers' = [workers EXCEPT ![k].st = "ended"]
    /\ \E raised \in BOOLEAN :
        after' = safe_after(IF raised THEN safe_after(after, "showerror") ELSE after,
                            "_reset_tab_opening_flag")
    /\ UNCHANGED <<unshelled, lang, current_tab, opening, handed, boxes, clicks>>

\* the main loop of the UI thread runs the oldest callback of root.after
RunAfter ==
    /\ after # <<>>
    /\ after' = Tail(after)
    /\ IF Head(after) = "showerror"
       THEN /\ boxes' = boxes \cup {Box("error", "ui", <<>>)}
            /\ UNCHANGED opening
       ELSE /\ opening' = FALSE
            /\ UNCHANGED boxes
    /\ UNCHANGED <<unshelled, lang, current_tab, workers, handed, clicks>>

\* the shell of the macOS build, started in English
InitShell == Init /\ platform = "mac" /\ lang = "en"

NextShell ==
    \/ SwitchTab
    \/ SwitchLanguage
    \/ ClickOpenAsTabs
    \/ ClickOpenHistory
    \/ \E k \in 1..Len(workers) : DoOpenCall(k)
    \/ \E k \in 1..Len(workers) : DoOpenError(k)
    \/ \E k \in 1..Len(workers) : DoOpenEnd(k)
    \/ RunAfter

SpecShell == InitShell /\ [][NextShell]_vars

\* the worker threads that have not ended
Running == {k \in 1..Len(workers) : workers[k].st # "ended"}

\* C12: at any time at most one worker thread started by the Open-as-Tabs
\* button is running (at most one open_folders_as_tabs call in flight).
C12_AtMostOneWorker == Cardinality(Running) <= 1

\* C13: the shell calls open_folders_as_tabs on a worker thread only, and
\* every error box that an on_error call or an exception of the call brings
\* up is opened by the UI thread (through root.after), never by the worker.
C13_WorkerCallsUiBoxes ==
    /\ \A h \in handed : h.fn = "open_folders_as_tabs" => h.thread = "worker"
    /\ \A b \in boxes : b.kind = "error" => b.thread = "ui"

\* a call was made by a worker and an error box of it has been shown
C13_Witness ==
    /\ \E h \in handed : h.fn = "open_folders_as_tabs" /\ h.thread = "worker"
    /\ Box("error", "ui", <<>>) \in boxes
    /\ \E k \in 1..Len(workers) : workers[k].errs > 0

\* an existing directory or a path of UNC form (two leading separators)
ClassifiedValid(p) ==
    \/ p \in Dirs
    \/ Len(p) >= 2 /\ p[1] \in {"/", "\\"} /\ p[2] \in {"/", "\\"}

\* C14: every path handed to open_folders_as_tabs or open_single_folder was
\* classified valid (existing directory or UNC form); the invalid paths of a
\* group were reported in a warning and dropped, and no call is made with an
\* empty list.
C14_OnlyValidPathsHanded ==
    \A h \in handed :
        LET bad  == SelectSeq(h.given, LAMBDA p : ~ClassifiedValid(expanduser(p)))
            good == SelectSeq(h.given, LAMBDA p : ClassifiedValid(expanduser(p)))
        IN  /\ h.paths # <<>>
            /\ \A k \in 1..Len(h.paths) : ClassifiedValid(h.paths[k])
            /\ h.paths = [k \in 1..Len(good) |-> expanduser(good[k])]
            /\ h.fn = "open_folders_as_tabs" /\ bad # <<>>
                    => Box("invalid_paths", "ui", bad) \in boxes

\* a group with an invalid path was opened without it, and a folder was
\* opened from the history
C14_Witness ==
    /\ \E h \in handed : /\ h.fn = "open_folders_as_tabs"
                          /\ Len(h.paths) < Len(h.given)
    /\ \E h \in handed : h.fn = "open_single_folder"
    /\ \E b \in boxes : b.kind = "invalid_paths"

\* the positions of trace at which pywinauto is imported
Imports == {k \in 1..Len(trace) : trace[k].kind = "import"}

\* C15: pywinauto is imported only inside the Tier-1 function: nothing has
\* imported it before _open_tabs_pywinauto_uia is running (not the load of
\* the module, not the availability check), it is imported at most once, as
\* the first thing Tier 1 does, and never in a call whose availability check
\* found it missing.
C15_ImportOnlyInTier1 ==
    /\ pc \in {"idle", "entry", "t1_import"} => Imports = {}
    /\ ~pywinauto => Imports = {}
    /\ Imports # {} =>
            /\ Imports = {1}
            /\ trace[1].tier = 1
            /\ invoked[1].fn = "_open_tabs_pywinauto_uia"

\* a finished call in which Tier 1 imported pywinauto and did all the work
C15_Witness ==
    /\ pc = "done"
    /\ pywinauto
    /\ Imports = {1}
    /\ trace[1].ok
    /\ Len(invoked) = 1

\* the script of the macOS script tier has run and exited with 0
ScriptSucceeded ==
    /\ platform = "mac"
    /\ \E k \in 1..Len(trace) : trace[k].kind = "script" /\ trace[k].ok

----------------------------------------------------------------------------
(* The scripts of opener_mac. A script is the text handed to osascript,     *)
(* kept as a sequence of pieces whose concatenation is the text: a fixed    *)
(* part of a line is one piece, an interpolated path contributes one piece  *)
(* per character, a number one piece per digit, and "\n" separates lines.   *)

\* longest path list a script is built for
MaxScriptPaths == 3
\* longest path, in characters, that is escaped
MaxPathChars == 3
\* opener_mac._RETRY_MAX
_RETRY_MAX == 30

DigitChars == <<"0", "1", "2", "3", "4", "5", "6", "7", "8", "9">>

\* str(n) of a natural number
RECURSIVE Digits(_)
Digits(n) ==
    IF n < 10 THEN <<DigitChars[n + 1]>>
    ELSE Digits(n \div 10) \o <<DigitChars[(n % 10) + 1]>>

\* f"{n}" of an int
Str(n) == IF n < 0 THEN <<"-">> \o Digits(-n) ELSE Digits(n)

\* s.replace(c, r) for a character c and a text r
RECURSIVE Replace(_, _, _)
Replace(s, c, r) ==
    IF s = <<>> THEN <<>>
    ELSE (IF Head(s) = c THEN r ELSE <<Head(s)>>) \o Replace(Tail(s), c, r)

\* the mutant of _esc_applescript: the quotes are escaped first, so that
\* their backslashes are doubled afterwards
EscQuotesFirst(p) ==
    Replace(Replace(p, "\"", <<"\\", "\"">>), "\\", <<"\\", "\\">>)

\* _esc_applescript: p.replace("\\", "\\\\").replace('"', '\\"')
_esc_applescript(p) ==
    Replace(Replace(p, "\\", <<"\\", "\\">>), "\"", <<"\\", "\"">>)

\* "\n".join(lines)
RECURSIVE Join(_)
Join(lines) ==
    IF lines = <<>> THEN <<>>
    ELSE IF Len(lines) = 1 THEN lines[1]
    ELSE lines[1] \o <<"\n">> \o Join(Tail(lines))

MakeWindowHead == "  make new Finder window to POSIX file \""
SetTargetHead == "      set target of front Finder window to POSIX file \""
AsAlias == "\" as alias"
BoundsHead == "  set bounds of front Finder window to {"
KeystrokeLine == "    keystroke \"t\" using command down"

\* the mutant of TabBounds: the size is written where the far corner belongs
TabBoundsSize(rect) ==
    <<BoundsHead>> \o Str(rect[1]) \o <<", ">> \o Str(rect[2]) \o <<", ">>
        \o Str(rect[3]) \o <<", ">> \o Str(rect[4]) \o <<"}">>

\* _build_applescript: the bounds line, x, y, w, h = window_rect
TabBounds(rect) ==
    <<BoundsHead>> \o Str(rect[1]) \o <<", ">> \o Str(rect[2]) \o <<", ">>
        \o Str(rect[1] + rect[3]) \o <<", ">> \o Str(rect[2] + rect[4]) \o <<"}">>

\* _build_open_window_script: the bounds line
WindowBounds(rect) ==
    <<BoundsHead>> \o Str(rect[1]) \o <<", ">> \o Str(rect[2]) \o <<", ">>
        \o Str(rect[1] + rect[3]) \o <<", ">> \o Str(rect[2] + rect[4]) \o <<"}">>

\* the mutant of Remaining: the loop runs over every path
RemainingAll(ps) == ps

\* paths[1:]
Remaining(ps) == Tail(ps)

\* _build_applescript: the lines appended for one of the remaining paths
TabLinesNoExit(path) ==
    << <<"">>,
       <<"tell application \"System Events\"">>,
       <<"  tell process \"Finder\"">>,
       <<KeystrokeLine>>,
       <<"  end tell">>,
       <<"end tell">>,
       <<"">>,
       <<"repeat ">> \o Str(_RETRY_MAX) \o <<" times">>,
       <<"  try">>,
       <<"    tell application \"Finder\"">>,
       <<SetTargetHead>> \o _esc_applescript(path) \o <<AsAlias>>,
       <<"    end tell">>,
       <<"  on error">>,
       <<"    delay 0.1">>,
       <<"  end try">>,
       <<"end repeat">> >>

\* _build_applescript: the lines appended for one of the remaining paths
TabLines(path) ==
    << <<"">>,
       <<"tell application \"System Events\"">>,
       <<"  tell process \"Finder\"">>,
       <<KeystrokeLine>>,
       <<"  end tell">>,
       <<"end tell">>,
       <<"">>,
       <<"repeat ">> \o Str(_RETRY_MAX) \o <<" times">>,
       <<"  try">>,
       <<"    tell application \"Finder\"">>,
       <<SetTargetHead>> \o _esc_applescript(path) \o <<AsAlias>>,
       <<"    end tell">>,
       <<"    exit repeat">>,
       <<"  on error">>,
       <<"    delay 0.1">>,
       <<"  end try">>,
       <<"end repeat">> >>

RECURSIVE TabLinesOfAll(_)
TabLinesOfAll(ps) ==
    IF ps = <<>> THEN <<>> ELSE TabLines(Head(ps)) \o TabLinesOfAll(Tail(ps))

\* _build_applescript(ps, rect)
_build_applescript(ps, rect) ==
    Join( << <<"tell application \"Finder\"">>,
             <<"  activate">>,
             <<MakeWindowHead>> \o _esc_applescript(ps[1]) \o <<AsAlias>> >>
          \o (IF rect # <<>> THEN <<TabBounds(rect)>> ELSE <<>>)
          \o << <<"end tell">> >>
          \o TabLinesOfAll(Remaining(ps)) )

\* _build_open_window_script(path, rect)
_build_open_window_script(path, rect) ==
    <<"tell application \"Finder\"", "\n", "  activate", "\n", MakeWindowHead>>
        \o _esc_applescript(path) \o <<AsAlias, "\n">>
        \o (IF rect # <<>> THEN WindowBounds(rect) \o <<"\n">> ELSE <<>>)
        \o <<"end tell">>

\* the paths scripts are built for: plain, with a quote, with a backslash
ScriptPathNames ==
    { <<"/", "a">>, <<"/", "q", "\"">>, <<"\\", "b">> }

\* the paths that are escaped: every text of up to MaxPathChars characters
\* out of a letter, the double quote, the backslash, newline and return
EscPaths == SeqsUpTo({"n", "\"", "\\", "\n", "\r"}, MaxPathChars)

ScriptLists ==
    (SeqsUpTo(ScriptPathNames, MaxScriptPaths) \ {<<>>}) \cup {<<p>> : p \in EscPaths}

ScriptRects == { <<>>, <<100, 200, 800, 600>>, <<-8, 0, 1, 1>> }

\* the inputs: a path list and a window_rect
InitScript ==
    /\ platform = "mac"
    /\ lang = "en"
    /\ pywinauto = FALSE
    /\ pc = "idle"
    /\ paths_in \in ScriptLists
    /\ hasProgress = FALSE
    /\ hasError = FALSE
    /\ window_rect \in ScriptRects
    /\ paths = <<>>
    /\ i = 0
    /\ result = "none"
    /\ trace = <<>>
    /\ invoked = <<>>
    /\ run_result = [success |-> FALSE, error_msg |-> <<>>]
    /\ timeout = 0
    /\ elapsed = 0
    /\ attempt = 0
    /\ expired = {}
    /\ current_tab = "work"
    /\ opening = FALSE
    /\ workers = <<>>
    /\ after = <<>>
    /\ handed = {}
    /\ boxes = {}
    /\ clicks = 0
    /\ built = "none"
    /\ script = <<>>
    /\ keys = <<>>
    /\ called = "none"
    /\ input = [fn |-> "none"]
    /\ returned = <<>>
    /\ history = <<>>
    /\ now = 0
    /\ added = 0
    /\ LaterInit

unscripted == <<env, pc, args, paths, i, result, trace, invoked, run_result,
                waitVars, shellVars, restVars, keys>>

BuildTabScript ==
    /\ built = "none"
    /\ built' = "_build_applescript"
    /\ script' = _build_applescript(paths_in, window_rect)
    /\ UNCHANGED unscripted

BuildWindowScript ==
    /\ built = "none"
    /\ built' = "_build_open_window_script"
    /\ script' = _build_open_window_script(paths_in[1], window_rect)
    /\ UNCHANGED unscripted

Escape ==
    /\ built = "none"
    /\ built' = "_esc_applescript"
    /\ script' = _esc_applescript(paths_in[1])
    /\ UNCHANGED unscripted

\* opener_mac.open_folders_as_tabs up to the run of the script: the script
\* handed to _run_applescript, built for the expanded paths
OpenTabsScript ==
    /\ built = "none"
    /\ paths_in # <<>>
    /\ built' = "open_folders_as_tabs"
    /\ LET expanded == [k \in 1..Len(paths_in) |-> expanduser(paths_in[k])]
       IN  script' = _build_applescript(expanded, window_rect)
    /\ UNCHANGED unscripted

NextScript ==
    \/ BuildTabScript
    \/ BuildWindowScript
    \/ Escape
    \/ OpenTabsScript

SpecScript == InitScript /\ [][NextScript]_vars

----------------------------------------------------------------------------
(* What the claims read from a script *)

\* the places of a piece in the script
Pos(piece) == {k \in 1..Len(script) : script[k] = piece}

\* the j-th smallest element of a set of numbers
Nth(S, j) == CHOOSE x \in S : Cardinality({y \in S : y < x}) = j - 1

\* C17: the tab script of one path has no new-tab keystroke line and no
\* retry loop; the tab script of n > 1 paths has exactly n - 1 keystroke
\* lines, one per remaining path in list order, each followed by the retry
\* loop that sets the target to that path (escaped) and ends before the
\* next keystroke line.
C17_OneTabBlockPerRemainingPath ==
    built = "_build_applescript" =>
        LET n == Len(paths_in)
            K == Pos(KeystrokeLine)
            R == Pos("repeat ")
            T == Pos(SetTargetHead)
            E == Pos("end repeat")
        IN  /\ Cardinality(K) = n - 1
            /\ Cardinality(R) = n - 1
            /\ Cardinality(T) = n - 1
            /\ Cardinality(E) = n - 1
            /\ \A j \in 1..(n - 1) :
                    LET escaped == _esc_applescript(paths_in[j + 1])
                    IN  /\ Nth(K, j) < Nth(R, j)
                        /\ Nth(R, j) < Nth(T, j)
                        /\ Nth(T, j) < Nth(E, j)
                        /\ j < n - 1 => Nth(E, j) < Nth(K, j + 1)
                        /\ SubSeq(script, Nth(T, j) + 1, Nth(T, j) + Len(escaped) + 1)
                                = escaped \o <<AsAlias>>

\* the tab script of three paths, one of them with a double quote
C17_Witness ==
    /\ built = "_build_applescript"
    /\ Len(paths_in) = 3
    /\ paths_in[2] = <<"/", "q", "\"">>
    /\ Cardinality(Pos(KeystrokeLine)) = 2

\* C18: the text _esc_applescript returns holds no newline and no carriage
\* return.
C18_NoLineBreakInEscaped ==
    built = "_esc_applescript" =>
        \A k \in 1..Len(script) : script[k] \notin {"\n", "\r"}

\* a string literal of the scripting language, read back: a backslash gives
\* the character after it its escaped meaning
RECURSIVE Unescape(_)
Unescape(s) ==
    IF s = <<>> THEN <<>>
    ELSE IF Head(s) = "\\" /\ Len(s) >= 2
    THEN <<CASE s[2] = "n" -> "\n" [] s[2] = "r" -> "\r" [] s[2] = "t" -> "\t"
             [] OTHER -> s[2]>>
         \o Unescape(SubSeq(s, 3, Len(s)))
    ELSE <<Head(s)>> \o Unescape(Tail(s))

\* a double quote that no backslash escapes, which would end the literal
RECURSIVE HasBareQuote(_)
HasBareQuote(s) ==
    IF s = <<>> THEN FALSE
    ELSE IF Head(s) = "\\" /\ Len(s) >= 2 THEN HasBareQuote(SubSeq(s, 3, Len(s)))
    ELSE Head(s) = "\"" \/ HasBareQuote(Tail(s))

HasLineBreak(p) == \E k \in 1..Len(p) : p[k] \in {"\n", "\r"}

\* C19: for a path of ordinary characters, double quotes and backslashes,
\* the escaped text read back by the scripting language's string rules is
\* the path itself, and the escaped text holds no unescaped double quote.
C19_EscapeRoundTrip ==
    built = "_esc_applescript" /\ ~HasLineBreak(paths_in[1]) =>
        /\ Unescape(script) = paths_in[1]
        /\ ~HasBareQuote(script)

\* a path with a backslash before a letter and a double quote was escaped
C19_Witness ==
    /\ built = "_esc_applescript"
    /\ paths_in[1] = <<"\\", "n", "\"">>
    /\ Len(script) = 5

DigitValue(c) == CHOOSE d \in 0..9 : DigitChars[d + 1] = c

RECURSIVE ParseNat(_, _)
ParseNat(s, acc) ==
    IF s = <<>> THEN acc ELSE ParseNat(Tail(s), 10 * acc + DigitValue(Head(s)))

\* the number a numeral of the script denotes
ParseInt(s) == IF Head(s) = "-" THEN 0 - ParseNat(Tail(s), 0) ELSE ParseNat(s, 0)

\* the numbers of a list "a, b, c, d}" of the script, read up to the brace
RECURSIVE ReadList(_, _, _)
ReadList(s, numeral, acc) ==
    IF s = <<>> THEN acc
    ELSE IF Head(s) = "}" THEN Append(acc, ParseInt(numeral))
    ELSE IF Head(s) = ", " THEN ReadList(Tail(s), <<>>, Append(acc, ParseInt(numeral)))
    ELSE ReadList(Tail(s), Append(numeral, Head(s)), acc)

\* the corners the bounds line of the script sets
BoundsRead ==
    LET q == CHOOSE k \in Pos(BoundsHead) : TRUE
    IN  ReadList(SubSeq(script, q + 1, Len(script)), <<>>, <<>>)

\* C20: with window_rect = (x, y, w, h) the tab script and the
\* single-window script hold one bounds line, whose list is the corner form
\* {x, y, x + w, y + h}; without a window_rect they hold no bounds line.
C20_BoundsAreCorners ==
    built \in {"_build_applescript", "_build_open_window_script"} =>
        IF window_rect = <<>>
        THEN Pos(BoundsHead) = {}
        ELSE /\ Cardinality(Pos(BoundsHead)) = 1
             /\ BoundsRead = <<window_rect[1], window_rect[2],
                                window_rect[1] + window_rect[3],
                                window_rect[2] + window_rect[4]>>

\* the tab script for (100, 200, 800, 600) sets {100, 200, 900, 800}
C20_Witness ==
    /\ built = "_build_applescript"
    /\ window_rect = <<100, 200, 800, 600>>
    /\ Pos(BoundsHead) # {}
    /\ BoundsRead = <<100, 200, 900, 800>>

----------------------------------------------------------------------------
(* Functions applied on their own: the geometry of a tab group *)

\* the engine, the waits, the shell and the scripts before anything happened
Quiet ==
    /\ platform = "mac"
    /\ lang = "en"
    /\ pywinauto = FALSE
    /\ pc = "idle"
    /\ paths_in = <<>>
    /\ hasProgress = FALSE
    /\ hasError = FALSE
    /\ window_rect = <<>>
    /\ paths = <<>>
    /\ i = 0
    /\ result = "none"
    /\ trace = <<>>
    /\ invoked = <<>>
    /\ run_result = [success |-> FALSE, error_msg |-> <<>>]
    /\ timeout = 0
    /\ elapsed = 0
    /\ attempt = 0
    /\ expired = {}
    /\ current_tab = "work"
    /\ opening = FALSE
    /\ workers = <<>>
    /\ after = <<>>
    /\ handed = {}
    /\ boxes = {}
    /\ clicks = 0
    /\ built = "none"
    /\ script = <<>>
    /\ keys = <<>>
    /\ LaterInit

MIN_WINDOW_WIDTH == 528
MIN_WINDOW_HEIGHT == 308

\* None is <<>>, an int n is <<n>>
None == <<>>

\* the texts int() reads: an optional sign and decimal digits
IsIntText(t) ==
    /\ t # <<>>
    /\ LET body == IF t[1] \in {"+", "-"} THEN Tail(t) ELSE t
       IN  /\ body # <<>>
           /\ \A k \in 1..Len(body) : \E d \in 1..10 : DigitChars[d] = body[k]

\* _parse_int: int(value.strip()), None on ValueError
_parse_int(value) ==
    LET t == Strip(value)
    IN  IF ~IsIntText(t) THEN None
        ELSE IF t[1] = "-" THEN <<0 - ParseNat(Tail(t), 0)>>
        ELSE IF t[1] = "+" THEN <<ParseNat(Tail(t), 0)>>
        ELSE <<ParseNat(t, 0)>>

\* the mutant of _clamp_min: the value goes through as it is
ClampOmitted(value, minimum) == value

\* _clamp_min: None stays None, an int is raised to the minimum
_clamp_min(value, minimum) ==
    IF value = None THEN None
    ELSE IF value[1] > minimum THEN value ELSE <<minimum>>

\* _save_geometry: the fields of the group, from the four entries
_save_geometry(entries) ==
    [window_x      |-> _parse_int(entries.x),
     window_y      |-> _parse_int(entries.y),
     window_width  |-> _clamp_min(_parse_int(entries.w), MIN_WINDOW_WIDTH),
     window_height |-> _clamp_min(_parse_int(entries.h), MIN_WINDOW_HEIGHT)]

\* _get_window_rect: (x, y, w, h) when all four fields are set, else None
_get_window_rect(entries) ==
    LET group == _save_geometry(entries)
    IN  IF /\ group.window_x # None
           /\ group.window_y # None
           /\ group.window_width # None
           /\ group.window_height # None
        THEN <<group.window_x[1], group.window_y[1],
               group.window_width[1], group.window_height[1]>>
        ELSE None

\* _apply_window_rect: the arguments of MoveWindow
_apply_window_rect(hwnd, rect) ==
    [hwnd |-> hwnd, x |-> rect[1], y |-> rect[2], w |-> rect[3], h |-> rect[4]]

\* what the four entries of the geometry row hold
PositionTexts == { <<>>, <<"-", "5">>, <<"1", "0", "0">> }

WidthTexts ==
    { <<>>, <<"a">>, <<"-", "1">>, <<"5", "2", "7">>, <<"5", "2", "8">>,
      <<" ", "6", "0", "0", " ">> }

HeightTexts ==
    { <<>>, <<"0">>, <<"3", "0", "7">>, <<"3", "0", "8">>, <<"+", "4", "0", "0">> }

GeometryInputs ==
    { [fn |-> "_get_window_rect", entries |-> [x |-> x, y |-> y, w |-> w, h |-> h]] :
        x \in PositionTexts, y \in PositionTexts, w \in WidthTexts, h \in HeightTexts }

MaxValidate == 3

\* the paths that are validated: a directory, a path that does not exist, a
\* directory under the home directory, and a share in both spellings
ValidateNames ==
    { <<"/", "a">>, <<"/", "n", "o">>, <<"~", "/", "c">>,
      <<"\\", "\\", "s", "\\", "d">>, <<"/", "/", "s", "/", "d">> }

ValidateInputs ==
    { [fn |-> "validate_paths", paths |-> ps] : ps \in SeqsUpTo(ValidateNames, MaxValidate) }

\* the parameters of open_single_folder, on both platforms
SingleParams == {"path", "window_rect"}

\* opener_mac.open_single_folder. c.keywords: the keyword arguments of the
\* call, beyond path; c.spawn: what subprocess.Popen does. A keyword that is
\* no parameter raises TypeError before the body runs
mac_open_single_folder(c) ==
    IF ~(c.keywords \subseteq SingleParams)
    THEN [out |-> "TypeError", spawned |-> <<>>, moved |-> <<>>]
    ELSE IF c.spawn = "OSError"
    THEN [out |-> "False", spawned |-> <<>>, moved |-> <<>>]
    ELSE [out |-> "True",
          spawned |-> _build_open_window_script(expanduser(c.path), c.window_rect),
          moved |-> <<>>]

\* opener_win.open_single_folder. c.appeared: a new window is enumerated
\* within _WINDOW_FIND_TIMEOUT_SHORT
win_open_single_folder(c) ==
    IF ~(c.keywords \subseteq SingleParams)
    THEN [out |-> "TypeError", spawned |-> <<>>, moved |-> <<>>]
    ELSE IF c.spawn = "OSError"
    THEN [out |-> "False", spawned |-> <<>>, moved |-> <<>>]
    ELSE [out |-> "True",
          spawned |-> c.path,
          moved |-> IF c.window_rect # <<>> /\ c.appeared
                    THEN <<_apply_window_rect(1, c.window_rect)>> ELSE <<>>]

\* the calls of open_single_folder: as the shell makes them, with a
\* window_rect, and with the timeout of tests/test_opener_mac.py 197-200
SingleInputs ==
    { [fn |-> "open_single_folder", os |-> o, path |-> p, window_rect |-> r,
       keywords |-> k, spawn |-> sp, appeared |-> a] :
        o \in {"mac", "win"}, p \in { <<"/", "a">>, <<"~", "/", "c">> },
        r \in WindowRects, k \in {{}, {"window_rect"}, {"timeout"}},
        sp \in {"ok", "OSError"}, a \in BOOLEAN }

\* the polls of the window list that a detection is followed through
MaxPolls == 2

\* the window handles
Handles == {1, 2, 3}

\* the mutant of FirstNew: the first handle listed, new or not
FirstListed(hwnds, before_set) ==
    IF hwnds = <<>> THEN None ELSE <<hwnds[1]>>

\* for hwnd in _enum_explorer_hwnds(): if hwnd not in before_set: return hwnd
FirstNew(hwnds, before_set) ==
    LET new == SelectSeq(hwnds, LAMBDA hwnd : hwnd \notin before_set)
    IN  IF new = <<>> THEN None ELSE <<new[1]>>

\* the while loop of _find_new_explorer_hwnd from the test made t after
\* start: polls holds what _enum_explorer_hwnds lists now and after each
\* sleep
RECURSIVE FindFrom(_, _, _, _)
FindFrom(before_set, polls, limit, t) ==
    IF ~(t < limit) \/ polls = <<>> THEN None
    ELSE IF FirstNew(Head(polls), before_set) # None
    THEN FirstNew(Head(polls), before_set)
    ELSE FindFrom(before_set, Tail(polls), limit, t + FindSleep)

\* _find_new_explorer_hwnd(before_hwnds, timeout), at the level of handles
find_new_explorer_hwnd(before_hwnds, polls, limit) ==
    FindFrom({before_hwnds[k] : k \in 1..Len(before_hwnds)}, polls, limit, 0)

\* what _enum_explorer_hwnds lists: up to two windows, front window first
WindowLists ==
    {<<>>} \cup { <<a>> : a \in Handles }
           \cup { w \in Handles \X Handles : w[1] # w[2] }

\* a snapshot, what the polls list, and a timeout within which at most
\* MaxPolls polls are made
FindInputs ==
    { [fn |-> "_find_new_explorer_hwnd", before_hwnds |-> b, polls |-> ps, timeout |-> to] :
        b \in { <<>>, <<1>>, <<1, 2>> },
        ps \in [1..MaxPolls -> WindowLists],
        to \in 0..(MaxPolls * FindSleep) }

InitUnit ==
    /\ Quiet
    /\ called = "none"
    /\ returned = <<>>
    /\ history = <<>>
    /\ now = 0
    /\ added = 0
    /\ \/ input \in GeometryInputs
       \/ input \in ValidateInputs
       \/ input \in SingleInputs
       \/ input \in FindInputs

ununit == <<env, pc, args, paths, i, result, trace, invoked, run_result,
            waitVars, shellVars, scriptVars, historyVars, laterVars, keys, input>>

\* Open as Tabs with the entries of the geometry row: the rectangle of
\* _get_window_rect, handed on unchanged, and its MoveWindow on the window
\* that was detected
ApplyGeometry ==
    /\ called = "none"
    /\ input.fn = "_get_window_rect"
    /\ called' = "_get_window_rect"
    /\ LET rect == _get_window_rect(input.entries)
       IN  returned' = [rect  |-> rect,
                        moved |-> IF rect # None THEN <<_apply_window_rect(1, rect)>>
                                  ELSE <<>>]
    /\ UNCHANGED ununit

\* validate_paths(paths)
Validate ==
    /\ called = "none"
    /\ input.fn = "validate_paths"
    /\ called' = "validate_paths"
    /\ returned' = validate_paths(input.paths)
    /\ UNCHANGED ununit

\* open_single_folder(path, window_rect, **kwargs) of the platform's opener
OpenSingle ==
    /\ called = "none"
    /\ input.fn = "open_single_folder"
    /\ called' = "open_single_folder"
    /\ returned' = IF input.os = "mac" THEN mac_open_single_folder(input)
                                       ELSE win_open_single_folder(input)
    /\ UNCHANGED ununit

\* _find_new_explorer_hwnd(before_hwnds, timeout)
FindNew ==
    /\ called = "none"
    /\ input.fn = "_find_new_explorer_hwnd"
    /\ called' = "_find_new_explorer_hwnd"
    /\ returned' = find_new_explorer_hwnd(input.before_hwnds, input.polls, input.timeout)
    /\ UNCHANGED ununit

NextUnit ==
    \/ ApplyGeometry
    \/ Validate
    \/ OpenSingle
    \/ FindNew

SpecUnit == InitUnit /\ [][NextUnit]_vars

\* the number an entry's text denotes
Typed(text) == ParseInt(SelectSeq(Strip(text), LAMBDA c : c # "+"))

\* C21: a rectangle that is applied to a window is at least 528 wide and 308
\* high: a width or height typed below the minimum is applied as exactly the
\* minimum, one at or above it as typed, and x and y are applied as typed.
C21_AppliedRectClamped ==
    (called = "_get_window_rect" /\ returned.moved # <<>>) =>
        LET m == returned.moved[1]
            e == input.entries
        IN  /\ m.w >= 528
            /\ m.h >= 308
            /\ m.w = (IF Typed(e.w) < 528 THEN 528 ELSE Typed(e.w))
            /\ m.h = (IF Typed(e.h) < 308 THEN 308 ELSE Typed(e.h))
            /\ m.x = Typed(e.x)
            /\ m.y = Typed(e.y)

\* C21 witness: a width of -1 and a height of 307 were typed at x = -5, and
\* the window was moved
C21_Witness ==
    /\ called = "_get_window_rect"
    /\ input.entries.w = <<"-", "1">>
    /\ input.entries.h = <<"3", "0", "7">>
    /\ input.entries.x = <<"-", "5">>
    /\ returned.moved # <<>>
    /\ returned.moved[1].w = 528
    /\ returned.moved[1].h = 308

\* v and inv are what is left of ps, in its order, when each path goes to v
\* (expanded) if it is valid and to inv (as given) if it is not
RECURSIVE Splits(_, _, _)
Splits(ps, v, inv) ==
    IF ps = <<>> THEN v = <<>> /\ inv = <<>>
    ELSE IF ClassifiedValid(expanduser(Head(ps)))
    THEN v # <<>> /\ Head(v) = expanduser(Head(ps)) /\ Splits(Tail(ps), Tail(v), inv)
    ELSE inv # <<>> /\ Head(inv) = Head(ps) /\ Splits(Tail(ps), v, Tail(inv))

\* C22: validate_paths partitions its input: every path lands in exactly one
\* of the two lists (the lengths add up, repeats are kept), both lists keep
\* the input's order, a path is valid iff it has UNC form or names an
\* existing directory, and the empty list gives two empty lists.
C22_ValidatePartitions ==
    called = "validate_paths" =>
        /\ Len(returned.valid) + Len(returned.invalid) = Len(input.paths)
        /\ Splits(input.paths, returned.valid, returned.invalid)
        /\ input.paths = <<>> => returned.valid = <<>> /\ returned.invalid = <<>>

\* C22 witness: a missing path, given twice around a directory, is twice in
\* the invalid list
C22_Witness ==
    /\ called = "validate_paths"
    /\ input.paths = << <<"/", "n", "o">>, <<"/", "a">>, <<"/", "n", "o">> >>
    /\ returned.valid = << <<"/", "a">> >>
    /\ Len(returned.invalid) = 2

\* two leading separators, backslash or forward slash
HasUncForm(p) == Len(p) >= 2 /\ p[1] \in {"/", "\\"} /\ p[2] \in {"/", "\\"}

Count(seq, x) == Cardinality({k \in 1..Len(seq) : seq[k] = x})

\* C23: a path of UNC form is valid whatever the existence check would
\* answer for it, and the existence check is not made for it.
C23_UncAlwaysValid ==
    called = "validate_paths" =>
        \A k \in 1..Len(input.paths) :
            LET p == input.paths[k]
            IN  HasUncForm(p) =>
                    /\ Count(returned.valid, p) = Count(input.paths, p)
                    /\ Count(returned.invalid, p) = 0
                    /\ Count(returned.asked, p) = 0

\* C23 witness: the share that answers and the share that does not are both
\* valid, and only the third path was looked up
C23_Witness ==
    /\ called = "validate_paths"
    /\ input.paths = << <<"\\", "\\", "s", "\\", "d">>, <<"/", "n", "o">>,
                        <<"/", "/", "s", "/", "d">> >>
    /\ ~is_dir(input.paths[1])
    /\ is_dir(input.paths[3])
    /\ Len(returned.valid) = 2
    /\ returned.asked = << <<"/", "n", "o">> >>

\* C24: open_single_folder returns False exactly when the spawn of the file
\* manager fails at the level of the operating system, a spawn that is given
\* a timeout included, and True in every other case, also when the window
\* rectangle could not be applied because no new window was detected.
C24_FalseIffSpawnFails ==
    called = "open_single_folder" =>
        /\ returned.out \in {"True", "False"}
        /\ returned.out = "False" <=> input.spawn = "OSError"

\* the places of the script at which the literal of path p is opened, in the
\* new-window line or in a set-target line
OpensOf(p) ==
    LET lit == _esc_applescript(p)
    IN  {k \in Pos(MakeWindowHead) \cup Pos(SetTargetHead) :
            /\ k + Len(lit) + 1 <= Len(script)
            /\ SubSeq(script, k + 1, k + Len(lit)) = lit
            /\ script[k + Len(lit) + 1] = AsAlias}

\* C25: on macOS the script that open_folders_as_tabs hands to osascript
\* holds each distinct path of the input exactly once, repeats of the input
\* being dropped before the script is built.
C25_EachDistinctPathOnce ==
    built = "open_folders_as_tabs" =>
        \A k \in 1..Len(paths_in) :
            Cardinality(OpensOf(expanduser(paths_in[k]))) = 1

----------------------------------------------------------------------------
(* The history of ConfigManager *)

HISTORY_MAX == 50

\* the history is looked at from MaxOver entries below HISTORY_MAX to MaxOver
\* new paths above it
MaxOver == 2

\* the clock runs up to MaxNow seconds
MaxNow == 1

\* a path as it is given: the folder it names (folders are numbered in the
\* order in which they were first added) and its spelling: "plain" is the
\* normalized one, "slash" has a trailing separator, "quoted" has quotes
\* around it
Given(name, spelling) == [name |-> name, spelling |-> spelling]

Spellings == {"plain", "slash", "quoted"}

\* the folder that is added again, pinned, unpinned and removed: the one
\* that was added last before the first step
Pool == {HISTORY_MAX - MaxOver}

\* strip_quotes(path.strip())
strip_quotes(path) ==
    IF path.spelling = "quoted" THEN Given(path.name, "plain") ELSE path

\* os.path.normpath
normpath(path) ==
    IF path.spelling = "slash" THEN Given(path.name, "plain") ELSE path

\* HistoryEntry(path) after touch(); use_count is left out
HistoryEntry(path, pinned, last_used) ==
    [path |-> path, pinned |-> pinned, last_used |-> last_used]

\* list.sort(key=lambda e: e.last_used, reverse=True), which is stable: the
\* entries stamped t and later, latest first, in list order within a second
RECURSIVE NewestFirst(_, _)
NewestFirst(entries, t) ==
    IF t > now THEN <<>>
    ELSE NewestFirst(entries, t + 1) \o SelectSeq(entries, LAMBDA e : e.last_used = t)

\* the mutant of _trim_history: the pinned entries are not counted
TrimPinnedUncounted(h) ==
    IF Len(h) <= HISTORY_MAX THEN h
    ELSE LET pinned   == SelectSeq(h, LAMBDA e : e.pinned)
             unpinned == NewestFirst(SelectSeq(h, LAMBDA e : ~e.pinned), 0)
         IN  pinned \o SubSeq(unpinned, 1, Min(HISTORY_MAX, Len(unpinned)))

\* the mutant of _trim_history: the newest HISTORY_MAX entries are kept,
\* pinned or not
TrimNewest(h) ==
    IF Len(h) <= HISTORY_MAX THEN h
    ELSE SubSeq(NewestFirst(h, 0), 1, HISTORY_MAX)

\* _trim_history
_trim_history(h) ==
    IF Len(h) <= HISTORY_MAX THEN h
    ELSE LET pinned     == SelectSeq(h, LAMBDA e : e.pinned)
             unpinned   == NewestFirst(SelectSeq(h, LAMBDA e : ~e.pinned), 0)
             keep_count == IF HISTORY_MAX - Len(pinned) > 0
                           THEN HISTORY_MAX - Len(pinned) ELSE 0
         IN  pinned \o SubSeq(unpinned, 1, Min(keep_count, Len(unpinned)))

\* the places of the entries for a normalized path
Entries(h, normalized) == {k \in 1..Len(h) : normpath(h[k].path) = normalized}

First(S) == CHOOSE k \in S : \A m \in S : k <= m

\* n entries, added within one second
RECURSIVE Filled(_)
Filled(n) ==
    IF n = 0 THEN <<>>
    ELSE Append(Filled(n - 1), HistoryEntry(Given(n, "plain"), FALSE, 0))

InitHistory ==
    /\ Quiet
    /\ called = "none"
    /\ input = [fn |-> "none"]
    /\ returned = <<>>
    /\ history = Filled(HISTORY_MAX - MaxOver)
    /\ now = 0
    /\ added = HISTORY_MAX - MaxOver

unhistoried == <<env, pc, args, paths, i, result, trace, invoked, run_result,
                 waitVars, shellVars, scriptVars, laterVars, keys, returned>>

\* a second passes
Tick ==
    /\ now < MaxNow
    /\ now' = now + 1
    /\ UNCHANGED <<unhistoried, called, input, history, added>>

\* add_history(path), for the folder of the pool or the next new folder
add_history ==
    \E name \in 1..(HISTORY_MAX + MaxOver), spelling \in Spellings :
        LET path       == Given(name, spelling)
            normalized == normpath(strip_quotes(path))
            found      == Entries(history, normalized)
        IN  /\ name \in Pool \/ name = added + 1
            /\ name <= added + 1
            /\ called' = "add_history"
            /\ input' = [fn |-> "add_history", path |-> path]
            /\ added' = IF name > added THEN name ELSE added
            /\ history' =
                 IF found # {}
                 THEN [history EXCEPT ![First(found)].last_used = now]
                 ELSE _trim_history(Append(history, HistoryEntry(normalized, FALSE, now)))
            /\ UNCHANGED <<unhistoried, now>>

\* remove_history(path)
remove_history ==
    \E name \in Pool, spelling \in Spellings :
        LET path == Given(name, spelling)
        IN  /\ called' = "remove_history"
            /\ input' = [fn |-> "remove_history", path |-> path]
            /\ history' = SelectSeq(history, LAMBDA e : normpath(e.path) # normpath(path))
            /\ UNCHANGED <<unhistoried, now, added>>

\* clear_history(keep_pinned=...)
clear_history ==
    \E keep_pinned \in BOOLEAN :
        /\ called' = "clear_history"
        /\ input' = [fn |-> "clear_history", keep_pinned |-> keep_pinned]
        /\ history' = IF keep_pinned THEN SelectSeq(history, LAMBDA e : e.pinned) ELSE <<>>
        /\ UNCHANGED <<unhistoried, now, added>>

\* toggle_pin(path)
toggle_pin ==
    \E name \in Pool, spelling \in Spellings :
        LET path  == Given(name, spelling)
            found == Entries(history, normpath(path))
        IN  /\ called' = "toggle_pin"
            /\ input' = [fn |-> "toggle_pin", path |-> path]
            /\ history' = IF found = {} THEN history
                          ELSE [history EXCEPT ![First(found)].pinned = ~@]
            /\ UNCHANGED <<unhistoried, now, added>>

NextHistory ==
    \/ Tick
    \/ add_history
    \/ remove_history
    \/ clear_history
    \/ toggle_pin

SpecHistory == InitHistory /\ [][NextHistory]_vars

\* C26: after any sequence of history operations the history holds at most
\* HISTORY_MAX (50) entries.
C26_HistoryAtMostMax == Len(history) <= 50

\* C26 witness: a new path was added to a full history in which a pinned
\* entry is held, and the history is full again
C26_Witness ==
    /\ called = "add_history"
    /\ input.path.name = HISTORY_MAX + 1
    /\ Len(history) = 50
    /\ \E k \in 1..Len(history) : history[k].pinned

\* the folders of the pinned entries of a history
PinnedIn(h) == {h[k].path.name : k \in {m \in 1..Len(h) : h[m].pinned}}

FoldersIn(h) == {h[k].path.name : k \in 1..Len(h)}

\* C27: no operation but the removal of its path and the clearing with
\* keep_pinned=False takes a pinned entry out of the history: the trimming of
\* add_history never does, and the entry stays until it is unpinned.
C27_PinnedStay ==
    [][\A name \in PinnedIn(history) :
          \/ name \in FoldersIn(history')
          \/ called' = "remove_history" /\ normpath(input'.path).name = name
          \/ called' = "clear_history" /\ ~input'.keep_pinned]_vars

\* C27 witness: a pinned entry, stamped a second before the newest ones, is
\* still held after the history was trimmed, which dropped another entry
C27_Witness ==
    /\ called = "add_history"
    /\ added = HISTORY_MAX + 1
    /\ Len(history) = HISTORY_MAX
    /\ now = 1
    /\ \E k \in 1..Len(history) : history[k].pinned /\ history[k].last_used = 0
    /\ \E name \in 1..added : name \notin FoldersIn(history)

----------------------------------------------------------------------------
(* Tier 1 of the Windows opener, path by path *)

\* the entries of trace that pass k of Tier 1's loop made
Tier1Of(k, kind) ==
    {m \in 1..Len(trace) :
        /\ trace[m].tier = 1
        /\ trace[m].idx = k
        /\ trace[m].kind = kind}

\* Tier 1 is attached to its window and has not handed over to another tier
Tier1Attached ==
    /\ invoked # <<>>
    /\ invoked[Len(invoked)].fn = "_open_tabs_pywinauto_uia"
    /\ pc \in {"t1_loop", "done"}
    /\ Len(paths) > 1

\* C28: in Tier 1 on Windows, once the window is found and attached, every
\* remaining path that has had its pass gave exactly one event, an ErrorEvent
\* for that path if adding its tab raised and a ProgressEvent otherwise (each
\* when its callback is given); after either the loop goes on with the next
\* path, and the tier returns True.
C28_Tier1IsolatesFailures ==
    Tier1Attached =>
        /\ \A k \in 2..Len(paths) :
             LET done_k == IF pc = "done" THEN TRUE ELSE k < i
                 tb == Tier1Of(k, "tab")
                 pr == Tier1Of(k, "progress")
                 er == Tier1Of(k, "error")
             IN  IF ~done_k
                 THEN tb = {} /\ pr = {} /\ er = {}
                 ELSE /\ Cardinality(tb) = 1
                      /\ \A m \in tb :
                           /\ trace[m].path = paths[k]
                           /\ Cardinality(pr) = (IF trace[m].ok /\ hasProgress THEN 1 ELSE 0)
                           /\ Cardinality(er) = (IF ~trace[m].ok /\ hasError THEN 1 ELSE 0)
                      /\ \A m \in pr \cup er : trace[m].path = paths[k]
        /\ pc = "done" => result = "True"
        /\ (pc = "t1_loop" /\ i <= Len(paths)) => ENABLED T1_Path

\* C28 witness: with both callbacks, the tab of the second of three paths
\* raised, the third path was opened after it, and the tier returned
C28_Witness ==
    /\ Tier1Attached
    /\ pc = "done"
    /\ hasProgress
    /\ hasError
    /\ Len(paths) = 3
    /\ Tier1Of(2, "error") # {}
    /\ Tier1Of(3, "progress") # {}

----------------------------------------------------------------------------
(* The address bar of Tier 1 *)

KeysAt(key) == {k \in 1..Len(keys) : keys[k] = key}

\* C29: for each remaining path of Tier 1 the address bar is set and read
\* back at most 3 times, and not again after the read-back was the
\* normalized path; when the loop is left Enter is sent exactly once, as
\* the last key, whether or not the path was verified; a mismatch leaves
\* the path in progress: the next pass or Enter follows it.
C29_AtMostThreeAttemptsThenEnter ==
    /\ Cardinality(KeysAt("^l")) <= 3
    /\ \A v \in KeysAt("verified") : \A k \in KeysAt("^l") : k < v
    /\ Cardinality(KeysAt("{ENTER}")) <= 1
    /\ \A k \in KeysAt("{ENTER}") : k = Len(keys)
    /\ pc = "w1_nav" => KeysAt("{ENTER}") # {}
    /\ KeysAt("{ENTER}") # {} =>
          \/ Cardinality(KeysAt("mismatch")) = 3
          \/ KeysAt("verified") \cup KeysAt("unverifiable") # {}
    /\ (keys # <<>> /\ keys[Len(keys)] = "mismatch") =>
          /\ pc = "w1_attempt"
          /\ attempt = Cardinality(KeysAt("mismatch"))

\* C29 witness: three mismatches, then Enter
C29_Witness ==
    /\ pc = "w1_nav"
    /\ keys = <<"^t", "^l", "mismatch", "^l", "mismatch", "^l", "mismatch", "{ENTER}">>

\* the polls made before the timeout: one at the start and one after each
\* sleep that ends before it
PollsInTime == {j \in 1..Len(input.polls) : (j - 1) * FindSleep < input.timeout}

Snapshot == {input.before_hwnds[k] : k \in 1..Len(input.before_hwnds)}

Listed(j) == {input.polls[j][k] : k \in 1..Len(input.polls[j])}

\* C30: new-window detection returns a handle that a poll made before the
\* timeout listed and that is not in the snapshot, or no match; it returns
\* no match only when every handle listed in every such poll is in the
\* snapshot.
C30_NewHandleOrNoMatch ==
    called = "_find_new_explorer_hwnd" =>
        IF returned = None
        THEN \A j \in PollsInTime : Listed(j) \subseteq Snapshot
        ELSE /\ returned[1] \notin Snapshot
             /\ \E j \in PollsInTime : returned[1] \in Listed(j)

\* C30 witness: the first poll lists the two windows of the snapshot, the
\* second lists one of them and a new window behind it, which is returned
C30_Witness ==
    /\ called = "_find_new_explorer_hwnd"
    /\ input.before_hwnds = <<1, 2>>
    /\ input.polls = << <<2, 1>>, <<1, 3>> >>
    /\ returned = <<3>>

----------------------------------------------------------------------------
(* New-window detection and the window rectangle in the tiers of Windows *)

\* the entries of trace that tier made in pass k
TierOf(tier, k, kind) ==
    {m \in 1..Len(trace) :
        /\ trace[m].tier = tier
        /\ trace[m].idx = k
        /\ trace[m].kind = kind}

\* the places of invoked at which tier was called
CallsOf(tier) == {n \in 1..Len(invoked) : invoked[n].tier = tier}

\* C31: when new-window detection finds no window: in Tier 1 and Tier 2 the
\* tier raises before any new-tab key sequence is sent and the next tier is
\* called; in Tier 3 only the rectangle is left out for that path, its
\* ProgressEvent is emitted, no ErrorEvent is, and the loop goes on.
C31_NoMatchByTier ==
    platform = "win" =>
        \A m \in 1..Len(trace) :
            (trace[m].kind = "find" /\ ~trace[m].ok) =>
                IF trace[m].tier \in {1, 2}
                THEN /\ \A n \in 1..Len(trace) :
                            ~(trace[n].kind = "tab" /\ trace[n].tier = trace[m].tier)
                     /\ \A n \in CallsOf(trace[m].tier) : invoked[n].out = "raised"
                     /\ CallsOf(trace[m].tier + 1) # {}
                ELSE LET k == trace[m].idx
                     IN  /\ TierOf(3, k, "rect") = {}
                         /\ TierOf(3, k, "error") = {}
                         /\ Cardinality(TierOf(3, k, "progress")) =
                                (IF hasProgress THEN 1 ELSE 0)
                         /\ pc = "done" => Cardinality(Positions(LAMBDA e :
                                e.kind = "spawn" /\ e.tier = 3)) = Len(paths)
                         /\ (pc = "t3_loop" /\ i <= Len(paths)) => ENABLED T3_Path

\* C31 witness: no window was found in Tier 1, in Tier 2, and for the first
\* path of Tier 3, whose ProgressEvent was made, and the second path
\* followed
C31_Witness ==
    /\ pc = "done"
    /\ hasProgress
    /\ \E m \in 1..Len(trace) : trace[m].kind = "find" /\ trace[m].tier = 1 /\ ~trace[m].ok
    /\ \E m \in 1..Len(trace) : trace[m].kind = "find" /\ trace[m].tier = 2 /\ ~trace[m].ok
    /\ \E m \in TierOf(3, 1, "find") : ~trace[m].ok
    /\ TierOf(3, 1, "progress") # {}
    /\ TierOf(3, 2, "progress") # {}

----------------------------------------------------------------------------
(* The wait for the new tab in the generated macOS script *)

\* C32: in the tab script every remaining path has a line that records the
\* id of the front Finder window before its new-tab keystroke and, after the
\* keystroke, a loop that is left once the id has changed, before the
\* target is set.
C32_WaitsForWindowIdChange ==
    built = "_build_applescript" =>
        LET n == Len(paths_in)
            P == {k \in 1..Len(script) :
                    script[k] \in {"set prevId to id of front Finder window",
                                   "  set prevId to id of front Finder window",
                                   "    set prevId to id of front Finder window"}}
            W == {k \in 1..Len(script) :
                    script[k] \in {"if curId is not prevId then exit repeat",
                                   "  if curId is not prevId then exit repeat",
                                   "    if curId is not prevId then exit repeat"}}
            K == Pos(KeystrokeLine)
            T == Pos(SetTargetHead)
        IN  /\ Cardinality(P) = n - 1
            /\ Cardinality(W) = n - 1
            /\ \A j \in 1..(n - 1) :
                    /\ Nth(P, j) < Nth(K, j)
                    /\ Nth(K, j) < Nth(W, j)
                    /\ Nth(W, j) < Nth(T, j)

----------------------------------------------------------------------------
(* The run of the tab script: osascript working through the lines that    *)
(* _build_applescript wrote. A statement sent to Finder or System Events   *)
(* either works or raises; an error inside try goes to its on error part,  *)
(* an error outside ends the script.                                       *)

\* the lines of a text
RECURSIVE SplitLines(_)
SplitLines(s) ==
    LET N == {k \in 1..Len(s) : s[k] = "\n"}
    IN  IF N = {} THEN <<s>>
        ELSE LET k == CHOOSE x \in N : \A y \in N : x <= y
             IN  <<SubSeq(s, 1, k - 1)>> \o SplitLines(SubSeq(s, k + 1, Len(s)))

\* the first piece of the line to run
Stmt == IF line \in 1..Len(stmts) /\ stmts[line] # <<>>
        THEN stmts[line][1] ELSE "none"

\* the first line after this one, or before it, that starts with head
LineAfter(head) ==
    LET S == {k \in (line + 1)..Len(stmts) :
                stmts[k] # <<>> /\ stmts[k][1] = head}
    IN  IF S = {} THEN 0 ELSE CHOOSE x \in S : \A y \in S : x <= y

LineBefore(head) ==
    LET S == {k \in 1..(line - 1) :
                stmts[k] # <<>> /\ stmts[k][1] = head}
    IN  CHOOSE x \in S : \A y \in S : x >= y

\* what happened in the loop in progress, with one more entry
Logged(what) ==
    [loops EXCEPT ![Len(loops)] = Append(loops[Len(loops)], what)]

\* the paths the script is run for
RunLists == {ps \in SeqsUpTo({<<"/", "a">>}, MaxScriptPaths) : ps # <<>>}

InitRun ==
    /\ InitScript
    /\ paths_in \in RunLists
    /\ window_rect = <<>>

unrun == <<env, pc, args, paths, i, result, trace, invoked, run_result,
           waitVars, shellVars, unitVars, historyVars, tabVars, keys, built, script, stmts>>

\* open_folders_as_tabs: script = _build_applescript(expanded, window_rect),
\* then _run_applescript(script)
RunScript ==
    /\ built = "none"
    /\ built' = "osascript"
    /\ LET expanded == [k \in 1..Len(paths_in) |-> expanduser(paths_in[k])]
       IN  script' = _build_applescript(expanded, window_rect)
    /\ stmts' = SplitLines(script')
    /\ line' = 1
    /\ UNCHANGED <<env, pc, args, paths, i, result, trace, invoked, run_result,
                   waitVars, shellVars, unitVars, historyVars, tabVars, keys,
                   left, loops, ended>>

ScriptRunning == built = "osascript" /\ ended = "none"

\* tell, end tell, activate, try, end try and the blank lines; on error,
\* reached when the try part raised nothing, has its part skipped
RunPlain ==
    /\ ScriptRunning
    /\ Stmt \in {"", "tell application \"Finder\"", "  activate", "end tell",
                 "tell application \"System Events\"", "  tell process \"Finder\"",
                 "  end tell", "  try", "    tell application \"Finder\"",
                 "    end tell", "  on error", "  end try"}
    /\ line' = IF Stmt = "  on error" THEN LineAfter("  end try") ELSE line + 1
    /\ UNCHANGED <<left, loops, ended, unrun>>

\* make new Finder window, keystroke "t": outside any try
RunBare ==
    /\ ScriptRunning
    /\ Stmt \in {MakeWindowHead, KeystrokeLine}
    /\ \E ok \in BOOLEAN :
        IF ok THEN line' = line + 1 /\ ended' = ended
        ELSE ended' = "error" /\ line' = line
    /\ UNCHANGED <<left, loops, unrun>>

\* repeat n times
RunRepeat ==
    /\ ScriptRunning
    /\ Stmt = "repeat "
    /\ LET text == stmts[line]
           n == ParseNat(SubSeq(text, 2, Len(text) - 1), 0)
       IN  /\ left' = n
           /\ line' = IF n = 0 THEN LineAfter("end repeat") + 1 ELSE line + 1
    /\ loops' = Append(loops, <<>>)
    /\ UNCHANGED <<ended, unrun>>

\* set target of front Finder window
RunSetTarget ==
    /\ ScriptRunning
    /\ Stmt = SetTargetHead
    /\ \E ok \in BOOLEAN :
        IF ok
        THEN /\ loops' = Logged("ok")
             /\ line' = line + 1
             /\ ended' = ended
        ELSE /\ loops' = Logged("fail")
             /\ IF LineAfter("  on error") # 0
                THEN line' = LineAfter("  on error") + 1 /\ ended' = ended
                ELSE line' = line /\ ended' = "error"
    /\ UNCHANGED <<left, unrun>>

\* exit repeat
RunExit ==
    /\ ScriptRunning
    /\ Stmt = "    exit repeat"
    /\ line' = LineAfter("end repeat") + 1
    /\ left' = 0
    /\ UNCHANGED <<loops, ended, unrun>>

\* delay
RunDelay ==
    /\ ScriptRunning
    /\ Stmt = "    delay 0.1"
    /\ loops' = Logged("delay")
    /\ line' = line + 1
    /\ UNCHANGED <<left, ended, unrun>>

\* end repeat: the next pass, or the line after the loop
RunEndRepeat ==
    /\ ScriptRunning
    /\ Stmt = "end repeat"
    /\ IF left > 1
       THEN left' = left - 1 /\ line' = LineBefore("repeat ") + 1
       ELSE left' = 0 /\ line' = line + 1
    /\ UNCHANGED <<loops, ended, unrun>>

\* the end of the text
RunEnd ==
    /\ ScriptRunning
    /\ line > Len(stmts)
    /\ ended' = "ok"
    /\ UNCHANGED <<line, left, loops, unrun>>

NextRun ==
    \/ RunScript
    \/ RunPlain
    \/ RunBare
    \/ RunRepeat
    \/ RunSetTarget
    \/ RunExit
    \/ RunDelay
    \/ RunEndRepeat
    \/ RunEnd

SpecRun == InitRun /\ [][NextRun]_vars

\* the attempts made in a loop
Attempts(r) == {k \in 1..Len(r) : r[k] \in {"ok", "fail"}}

\* C33: in the run of the tab script the target of a remaining path is set
\* at most _RETRY_MAX times, every failed attempt is followed by the delay,
\* a success is the last attempt of its loop, and a loop whose attempts all
\* failed is followed by the rest of the script: the script does not end
\* in an error there, and a script that ends has run a loop for every
\* remaining path.
C33_BoundedRetryThenNextPath ==
    built = "osascript" =>
        /\ \A n \in 1..Len(loops) :
            LET r == loops[n]
            IN  /\ Cardinality(Attempts(r)) <= _RETRY_MAX
                /\ \A k \in 1..Len(r) :
                    /\ r[k] = "ok" => k = Len(r)
                    /\ (r[k] = "fail" /\ k < Len(r)) => r[k + 1] = "delay"
                    /\ r[k] = "delay" => (k > 1 /\ r[k - 1] = "fail")
                /\ (n < Len(loops) \/ ended = "ok") =>
                    \/ r # <<>> /\ r[Len(r)] = "ok"
                    \/ Cardinality(Attempts(r)) = _RETRY_MAX /\ r[Len(r)] = "delay"
        /\ ended = "error" =>
                (loops = <<>> \/ loops[Len(loops)] = <<>>
                    \/ loops[Len(loops)][Len(loops[Len(loops)])] # "fail")
        /\ ended = "ok" => Len(loops) = Len(paths_in) - 1

\* C33 witness: the script ended after a loop whose _RETRY_MAX attempts all
\* failed, followed by a loop that succeeded at its second attempt
C33_Witness ==
    /\ built = "osascript"
    /\ ended = "ok"
    /\ Len(loops) = 2
    /\ Cardinality(Attempts(loops[1])) = _RETRY_MAX
    /\ \A k \in 1..Len(loops[1]) : loops[1][k] # "ok"
    /\ loops[2] = <<"fail", "delay", "ok">>

----------------------------------------------------------------------------
(* The _opening guard over time. The worker threads run and the main loop *)
(* of Tk runs the callbacks given to root.after: weak fairness for the     *)
(* steps of do_open and for RunAfter. What the user does is not forced.    *)

SpecShellLive ==
    /\ InitShell
    /\ [][NextShell]_vars
    /\ WF_vars(\E k \in 1..Len(workers) : DoOpenCall(k))
    /\ WF_vars(\E k \in 1..Len(workers) : DoOpenEnd(k))
    /\ WF_vars(RunAfter)

\* C34: whenever the _opening guard is set, it is reset to False later.
C34_OpeningEventuallyReset == opening ~> ~opening

----------------------------------------------------------------------------
(* The window rectangle in Tier 1 and Tier 2 *)

\* C35: on Windows, when a window_rect is given and Tier 1 or Tier 2 has
\* returned True, that tier applied the rectangle exactly once, to the
\* window its new-window detection found, whatever the number of paths.
C35_RectOnceOnTierSuccess ==
    ( /\ platform = "win"
      /\ pc = "done"
      /\ result = "True"
      /\ window_rect # <<>>
      /\ invoked # <<>>
      /\ invoked[Len(invoked)].tier \in {1, 2} ) =>
        LET t == invoked[Len(invoked)].tier
            R == {m \in 1..Len(trace) : trace[m].kind = "rect" /\ trace[m].tier = t}
        IN  /\ Cardinality(R) = 1
            /\ \A m \in R :
                \E f \in 1..(m - 1) :
                    trace[f].kind = "find" /\ trace[f].tier = t /\ trace[f].ok

----------------------------------------------------------------------------
(* The tab groups of ConfigManager. A name is a text; the paths of a      *)
(* group play no part in what follows and are left out.                    *)

\* the most tab groups the operations below build up
MaxTabs == 3

\* TabGroup(name=name)
TabGroup(nm) ==
    [name |-> nm, window_x |-> None, window_y |-> None,
     window_width |-> None, window_height |-> None]

\* [g.name for g in self.data.tab_groups]
GroupNames(gs) == [k \in 1..Len(gs) |-> gs[k].name]

\* get_tab_group: the place of the first group of that name, 0 for None
get_tab_group(gs, nm) ==
    LET S == {k \in 1..Len(gs) : gs[k].name = nm}
    IN  IF S = {} THEN 0 ELSE CHOOSE x \in S : \A y \in S : x <= y

\* add_tab_group: the groups afterwards and what is returned
add_tab_group(gs, nm) ==
    IF nm = <<>> \/ Strip(nm) = <<>> THEN [groups |-> gs, ret |-> None]
    ELSE IF get_tab_group(gs, nm) # 0 THEN [groups |-> gs, ret |-> None]
    ELSE [groups |-> Append(gs, TabGroup(nm)), ret |-> <<TabGroup(nm)>>]

\* delete_tab_group
delete_tab_group(gs, nm) == SelectSeq(gs, LAMBDA g : g.name # nm)

\* rename_tab_group
rename_tab_group(gs, old_name, new_name) ==
    LET k == get_tab_group(gs, old_name)
    IN  IF k = 0 THEN gs ELSE [gs EXCEPT ![k].name = new_name]

\* list.pop(old_index) then list.insert(new_index, item), indices from 0
MoveItem(seq, old_index, new_index) ==
    IF /\ 0 <= old_index /\ old_index < Len(seq)
       /\ 0 <= new_index /\ new_index < Len(seq)
    THEN LET item == seq[old_index + 1]
             rest == SubSeq(seq, 1, old_index) \o SubSeq(seq, old_index + 2, Len(seq))
         IN  SubSeq(rest, 1, new_index) \o <<item>> \o SubSeq(rest, new_index + 1, Len(rest))
    ELSE seq

\* move_tab_group
move_tab_group(gs, old_index, new_index) == MoveItem(gs, old_index, new_index)

\* the length of the longest end of s made of characters of C
RECURSIVE EndRun(_, _)
EndRun(s, C) ==
    IF s = <<>> \/ s[Len(s)] \notin C THEN 0
    ELSE 1 + EndRun(SubSeq(s, 1, Len(s) - 1), C)

\* re.match(r'^(.*?)\s+(\d+)$', name): group 1 if it matches, else the name
BaseName(nm) ==
    LET d    == EndRun(nm, {DigitChars[k] : k \in 1..10})
        rest == SubSeq(nm, 1, Len(nm) - d)
        w    == EndRun(rest, {" ", "\t"})
    IN  IF d > 0 /\ w > 0 THEN SubSeq(rest, 1, Len(rest) - w) ELSE nm

\* copy_tab_group: the groups afterwards and what is returned
copy_tab_group(gs, nm) ==
    LET k == get_tab_group(gs, nm)
    IN  IF k = 0 THEN [groups |-> gs, ret |-> None]
        ELSE LET base     == BaseName(nm)
                 existing == {gs[j].name : j \in 1..Len(gs)}
                 free     == {n \in 1..(Len(gs) + 1) :
                                base \o <<" ">> \o Str(n) \notin existing}
                 suffix   == CHOOSE n \in free : \A m \in free : n <= m
                 new_group == [gs[k] EXCEPT !.name = base \o <<" ">> \o Str(suffix)]
             IN  [groups |-> Append(gs, new_group), ret |-> <<new_group>>]

\* the names the operations are called with: in use or not, with a number
\* at the end, empty, blank
ApiNames == { <<"A">>, <<"B">>, <<"A", " ", "1">>, <<"A", " ", "2">>, <<>>, <<" ">> }

InitGroups ==
    /\ Quiet
    /\ called = "none"
    /\ input = [fn |-> "none"]
    /\ returned = <<>>
    /\ history = <<>>
    /\ now = 0
    /\ added = 0

ungrouped == <<env, pc, args, paths, i, result, trace, invoked, run_result,
               waitVars, shellVars, scriptVars, historyVars, runVars, keys, input,
               tab_names, tab_current, current_tab_name, geom_entries, entered>>

AddTabGroup ==
    /\ Len(tab_groups) < MaxTabs
    /\ \E nm \in ApiNames :
        /\ tab_groups' = add_tab_group(tab_groups, nm).groups
        /\ called' = "add_tab_group"
        /\ returned' = add_tab_group(tab_groups, nm).ret
    /\ UNCHANGED ungrouped

CopyTabGroup ==
    /\ Len(tab_groups) < MaxTabs
    /\ \E nm \in ApiNames :
        /\ tab_groups' = copy_tab_group(tab_groups, nm).groups
        /\ called' = "copy_tab_group"
        /\ returned' = copy_tab_group(tab_groups, nm).ret
    /\ UNCHANGED ungrouped

RenameTabGroup ==
    /\ \E old_name \in ApiNames, new_name \in ApiNames :
        tab_groups' = rename_tab_group(tab_groups, old_name, new_name)
    /\ called' = "rename_tab_group"
    /\ returned' = None
    /\ UNCHANGED ungrouped

DeleteTabGroup ==
    /\ \E nm \in ApiNames :
        tab_groups' = delete_tab_group(tab_groups, nm)
    /\ called' = "delete_tab_group"
    /\ returned' = None
    /\ UNCHANGED ungrouped

NextGroups ==
    \/ AddTabGroup
    \/ CopyTabGroup
    \/ RenameTabGroup
    \/ DeleteTabGroup

SpecGroups == InitGroups /\ [][NextGroups]_vars

\* C37: no two tab groups of the ConfigManager have the same name.
C37_GroupNamesUnique ==
    \A j, k \in 1..Len(tab_groups) :
        tab_groups[j].name = tab_groups[k].name => j = k

----------------------------------------------------------------------------
(* The tab bar of the GUI: TabView (widgets.py) and the handlers of       *)
(* TabGroupSection (tab_group.py) over the tab groups of the config.       *)

\* a TabView: its _names and its _current
TabViewOf(ns, cur) == [names |-> ns, current |-> cur]

InSeq(x, seq) == \E k \in 1..Len(seq) : seq[k] = x

\* list.index
IndexOf(x, seq) == CHOOSE k \in 1..Len(seq) : seq[k] = x /\ \A j \in 1..(k - 1) : seq[j] # x

\* TabView._rebuild: what it does to _current
_rebuild(tv) ==
    IF tv.names = <<>> THEN tv
    ELSE IF tv.current = None \/ ~InSeq(tv.current, tv.names)
    THEN [tv EXCEPT !.current = tv.names[1]]
    ELSE tv

\* TabView.add_tab
add_tab(tv, nm) ==
    IF InSeq(nm, tv.names) THEN tv
    ELSE _rebuild([tv EXCEPT !.names = Append(tv.names, nm)])

\* the mutant of delete_tab: the left neighbour is selected
DeleteTabLeft(tv, nm) ==
    IF ~InSeq(nm, tv.names) THEN tv
    ELSE LET idx  == IndexOf(nm, tv.names)
             rest == SubSeq(tv.names, 1, idx - 1) \o SubSeq(tv.names, idx + 1, Len(tv.names))
         IN  _rebuild([names   |-> rest,
                       current |-> IF tv.current # nm THEN tv.current
                                   ELSE IF rest = <<>> THEN None
                                   ELSE rest[IF idx > 1 THEN idx - 1 ELSE 1]])

\* TabView.delete_tab
delete_tab(tv, nm) ==
    IF ~InSeq(nm, tv.names) THEN tv
    ELSE LET idx  == IndexOf(nm, tv.names)
             rest == SubSeq(tv.names, 1, idx - 1) \o SubSeq(tv.names, idx + 1, Len(tv.names))
         IN  _rebuild([names   |-> rest,
                       current |-> IF tv.current # nm THEN tv.current
                                   ELSE IF rest = <<>> THEN None
                                   ELSE rest[Min(idx - 1, Len(rest) - 1) + 1]])

\* TabView.rename_tab
rename_tab(tv, old_name, new_name) ==
    IF ~InSeq(old_name, tv.names) \/ InSeq(new_name, tv.names) THEN tv
    ELSE _rebuild([names   |-> [tv.names EXCEPT ![IndexOf(old_name, tv.names)] = new_name],
                   current |-> IF tv.current = old_name THEN new_name ELSE tv.current])

\* TabView.set_current_tab
set_current_tab(tv, nm) ==
    IF ~InSeq(nm, tv.names) THEN tv ELSE [tv EXCEPT !.current = nm]

\* the mutant of move_tab: the names stay where they are
MoveTabKept(tv, old_index, new_index) == tv

\* TabView.move_tab
move_tab(tv, old_index, new_index) ==
    IF /\ 0 <= old_index /\ old_index < Len(tv.names)
       /\ 0 <= new_index /\ new_index < Len(tv.names)
    THEN _rebuild([tv EXCEPT !.names = MoveItem(tv.names, old_index, new_index)])
    ELSE tv

\* for group in self.config.data.tab_groups: self.tab_view.add_tab(group.name)
RECURSIVE AddTabs(_, _)
AddTabs(tv, ns) ==
    IF ns = <<>> THEN tv ELSE AddTabs(add_tab(tv, Head(ns)), Tail(ns))

\* the entry fields, all empty
NoEntries == [x |-> <<>>, y |-> <<>>, w |-> <<>>, h |-> <<>>]

\* the section and its widgets exist
SectionBuilt == DOMAIN geom_entries # {}

\* str(value) if value is not None else ""
FieldText(v) == IF v = None THEN <<>> ELSE Str(v[1])

\* _update_entry: the text of the entry afterwards
_update_entry(text, value) ==
    IF Strip(text) # FieldText(value) THEN FieldText(value) ELSE text

\* TabGroupSection._save_geometry: the groups and the entry fields afterwards
SaveGeometry(gs, cur, ents) ==
    LET k == IF cur = None THEN 0 ELSE get_tab_group(gs, cur)
        g == _save_geometry(ents)
    IN  IF k = 0 THEN [groups |-> gs, entries |-> ents]
        ELSE [groups  |-> [gs EXCEPT ![k] = [name          |-> gs[k].name,
                                             window_x      |-> g.window_x,
                                             window_y      |-> g.window_y,
                                             window_width  |-> g.window_width,
                                             window_height |-> g.window_height]],
              entries |-> [ents EXCEPT !.w = _update_entry(ents.w, g.window_width),
                                       !.h = _update_entry(ents.h, g.window_height)]]

\* TabGroupSection._load_geometry: the entry fields afterwards
_load_geometry(gs, cur) ==
    LET k == IF cur = None THEN 0 ELSE get_tab_group(gs, cur)
    IN  IF k = 0 THEN NoEntries
        ELSE [x |-> FieldText(gs[k].window_x), y |-> FieldText(gs[k].window_y),
              w |-> FieldText(gs[k].window_width), h |-> FieldText(gs[k].window_height)]

DefaultTabName == <<"T", "a", "b", " ", "1">>

\* what the user types into the name dialogs: nothing (or Cancel), a blank,
\* a name after a blank
DialogNames == { <<>>, <<" ">>, <<" ", "A">> }

\* what the user types into the geometry fields
EntryTexts ==
    { NoEntries,
      [x |-> Str(10), y |-> Str(20), w |-> Str(800), h |-> Str(600)],
      [x |-> Str(5), y |-> <<>>, w |-> Str(100), h |-> <<>>] }

InitTabs == InitGroups

untabbed == <<env, pc, args, paths, i, result, trace, invoked, run_result,
              waitVars, shellVars, scriptVars, historyVars, runVars, keys, input, returned>>

\* MainWindow._build_content with TabGroupSection.__init__ and
\* _load_tabs_from_config: at the start and after a change of language
BuildContent ==
    LET saved_tab_name == IF SectionBuilt THEN current_tab_name ELSE None
        gs    == IF tab_groups = <<>> THEN add_tab_group(tab_groups, DefaultTabName).groups
                 ELSE tab_groups
        added_all == AddTabs(TabViewOf(<<>>, None), GroupNames(gs))
        first == IF added_all.names # <<>>
                 THEN set_current_tab(added_all, added_all.names[1])
                 ELSE added_all
        name1 == IF added_all.names # <<>> THEN added_all.names[1] ELSE None
        back  == saved_tab_name # None /\ InSeq(saved_tab_name, first.names)
        tv    == IF back THEN set_current_tab(first, saved_tab_name) ELSE first
        cur   == IF back THEN saved_tab_name ELSE name1
    IN  /\ tab_groups' = gs
        /\ tab_names' = tv.names
        /\ tab_current' = tv.current
        /\ current_tab_name' = cur
        /\ geom_entries' = _load_geometry(gs, cur)
        /\ called' = "_build_content"
        /\ UNCHANGED <<entered, untabbed>>

\* TabView._on_btn_click and TabGroupSection._on_tab_changed
OnTabChanged ==
    /\ SectionBuilt
    /\ \E k \in 1..Len(tab_names) :
        LET tab_name == tab_names[k]
            saved == SaveGeometry(tab_groups, current_tab_name, geom_entries)
        IN  /\ tab_current' = tab_name
            /\ tab_groups' = saved.groups
            /\ current_tab_name' = tab_name
            /\ geom_entries' = _load_geometry(saved.groups, tab_name)
    /\ called' = "_on_tab_changed"
    /\ UNCHANGED <<tab_names, entered, untabbed>>

\* the user types into the geometry fields and leaves them or presses
\* Return: _save_geometry
EnterGeometry ==
    /\ SectionBuilt
    /\ \E typed \in EntryTexts :
        LET saved == SaveGeometry(tab_groups, current_tab_name, typed)
        IN  /\ tab_groups' = saved.groups
            /\ geom_entries' = saved.entries
    /\ entered' = IF current_tab_name # None /\ get_tab_group(tab_groups, current_tab_name) # 0
                  THEN entered \cup {current_tab_name} ELSE entered
    /\ called' = "_save_geometry"
    /\ UNCHANGED <<tab_names, tab_current, current_tab_name, untabbed>>

\* TabGroupSection._on_add_tab
OnAddTab ==
    /\ SectionBuilt
    /\ Len(tab_groups) < MaxTabs
    /\ \E asked \in DialogNames :
        LET name == Strip(asked)
        IN  IF asked = <<>> \/ name = <<>> \/ get_tab_group(tab_groups, name) # 0
            THEN UNCHANGED <<tab_groups, tab_names, tab_current, current_tab_name>>
            ELSE LET tv == set_current_tab(add_tab(TabViewOf(tab_names, tab_current), name), name)
                 IN  /\ tab_groups' = add_tab_group(tab_groups, name).groups
                     /\ tab_names' = tv.names
                     /\ tab_current' = tv.current
                     /\ current_tab_name' = name
    /\ called' = "_on_add_tab"
    /\ UNCHANGED <<geom_entries, entered, untabbed>>

\* TabGroupSection._on_delete_tab
OnDeleteTab ==
    /\ SectionBuilt
    /\ LET name == tab_current
       IN  \E result_yes \in BOOLEAN :
            IF name = None \/ ~result_yes
            THEN UNCHANGED <<tab_groups, tab_names, tab_current, current_tab_name,
                             geom_entries, entered>>
            ELSE LET gs  == delete_tab_group(tab_groups, name)
                     del == delete_tab(TabViewOf(tab_names, tab_current), name)
                     new_current == del.current
                     tv  == IF new_current # None THEN set_current_tab(del, new_current)
                            ELSE del
                 IN  /\ tab_groups' = gs
                     /\ tab_names' = tv.names
                     /\ tab_current' = tv.current
                     /\ current_tab_name' = new_current
                     /\ geom_entries' = _load_geometry(gs, new_current)
                     /\ entered' = entered \ {name}
    /\ called' = "_on_delete_tab"
    /\ UNCHANGED untabbed

\* TabGroupSection._on_rename_tab
OnRenameTab ==
    /\ SectionBuilt
    /\ LET old_name == tab_current
       IN  \E asked \in DialogNames :
            LET new_name == Strip(asked)
            IN  IF \/ old_name = None
                   \/ asked = <<>> \/ new_name = <<>> \/ new_name = old_name
                   \/ get_tab_group(tab_groups, new_name) # 0
                THEN UNCHANGED <<tab_groups, tab_names, tab_current, current_tab_name, entered>>
                ELSE LET tv == rename_tab(TabViewOf(tab_names, tab_current), old_name, new_name)
                     IN  /\ tab_groups' = rename_tab_group(tab_groups, old_name, new_name)
                         /\ tab_names' = tv.names
                         /\ tab_current' = tv.current
                         /\ current_tab_name' = new_name
                         /\ entered' = IF old_name \in entered
                                       THEN (entered \ {old_name}) \cup {new_name}
                                       ELSE entered
    /\ called' = "_on_rename_tab"
    /\ UNCHANGED <<geom_entries, untabbed>>

\* TabGroupSection._on_copy_tab
OnCopyTab ==
    /\ SectionBuilt
    /\ Len(tab_groups) < MaxTabs
    /\ LET name == tab_current
           copy == IF name = None THEN [groups |-> tab_groups, ret |-> None]
                   ELSE copy_tab_group(tab_groups, name)
       IN  IF copy.ret = None
           THEN UNCHANGED <<tab_groups, tab_names, tab_current, current_tab_name,
                            geom_entries, entered>>
           ELSE LET new_name == copy.ret[1].name
                    tv == set_current_tab(add_tab(TabViewOf(tab_names, tab_current), new_name),
                                          new_name)
                IN  /\ tab_groups' = copy.groups
                    /\ tab_names' = tv.names
                    /\ tab_current' = tv.current
                    /\ current_tab_name' = new_name
                    /\ geom_entries' = _load_geometry(copy.groups, new_name)
                    /\ entered' = IF name \in entered THEN entered \cup {new_name}
                                  ELSE entered
    /\ called' = "_on_copy_tab"
    /\ UNCHANGED untabbed

\* TabGroupSection._on_move_tab_left and _on_move_tab_right: by is -1 or 1
OnMoveTab ==
    /\ SectionBuilt
    /\ \E by \in {-1, 1} :
        LET name == tab_current
            idx  == IF name = None THEN 0 ELSE IndexOf(name, tab_names) - 1
        IN  IF \/ name = None
               \/ (by = -1 /\ idx <= 0)
               \/ (by = 1 /\ idx >= Len(tab_names) - 1)
            THEN UNCHANGED <<tab_groups, tab_names, tab_current>>
            ELSE LET tv == move_tab(TabViewOf(tab_names, tab_current), idx, idx + by)
                 IN  /\ tab_groups' = move_tab_group(tab_groups, idx, idx + by)
                     /\ tab_names' = tv.names
                     /\ tab_current' = tv.current
    /\ called' = "_on_move_tab"
    /\ UNCHANGED <<current_tab_name, geom_entries, entered, untabbed>>

\* the handlers that change the tabs or the selection. The names and the
\* selection are never computed from a geometry value, so the typing into
\* the geometry fields is left to SpecGeometry.
NextTabs ==
    \/ BuildContent
    \/ OnTabChanged
    \/ OnAddTab
    \/ OnDeleteTab
    \/ OnRenameTab
    \/ OnCopyTab
    \/ OnMoveTab

SpecTabs == InitTabs /\ [][NextTabs]_vars

\* the handlers that read or write the geometry fields, with the adding
\* and the deleting of tabs
NextGeometry ==
    \/ BuildContent
    \/ OnTabChanged
    \/ EnterGeometry
    \/ OnAddTab
    \/ OnDeleteTab

SpecGeometry == InitTabs /\ [][NextGeometry]_vars

\* C36: a tab group for which the user has entered no geometry values has
\* window_x, window_y, window_width and window_height unset.
C36_GeometryOnlyByEntry ==
    \A k \in 1..Len(tab_groups) :
        tab_groups[k].name \notin entered =>
            /\ tab_groups[k].window_x = None
            /\ tab_groups[k].window_y = None
            /\ tab_groups[k].window_width = None
            /\ tab_groups[k].window_height = None

\* C39: the names of the TabView are the names of the tab groups of the
\* config, in the same order.
C39_TabViewMatchesConfig == tab_names = GroupNames(tab_groups)

\* C39 witness: three tabs after an add, a copy and two moves to the left
C39_Witness ==
    /\ called = "_on_move_tab"
    /\ Len(tab_names) = 3
    /\ tab_names[1] = <<"A", " ", "1">>
    /\ tab_names[2] = DefaultTabName
    /\ tab_names[3] = <<"A">>

\* C40: current_tab_name is the tab selected in the TabView and names a tab
\* group of the config, or is None exactly when there is no tab; deleting
\* the selected tab selects its right neighbour, or the left one when it
\* was the last, and deleting another tab leaves the selection as it is.
C40_SelectionConsistent ==
    /\ current_tab_name = tab_current
    /\ (current_tab_name = None) <=> (tab_names = <<>>)
    /\ current_tab_name # None => get_tab_group(tab_groups, current_tab_name) # 0
    /\ \A k \in 1..Len(tab_names) :
        LET n   == Len(tab_names)
            del == delete_tab(TabViewOf(tab_names, tab_current), tab_names[k])
        IN  IF tab_names[k] # tab_current THEN del.current = tab_current
            ELSE IF k < n THEN del.current = tab_names[k + 1]
            ELSE IF n > 1 THEN del.current = tab_names[k - 1]
            ELSE del.current = None

\* C40 witness: the selected middle tab of three was deleted and its right
\* neighbour is selected
C40_Witness ==
    /\ called = "_on_delete_tab"
    /\ tab_names = << DefaultTabName, <<"A">> >>
    /\ tab_current = <<"A">>
    /\ current_tab_name = <<"A">>

----------------------------------------------------------------------------
(* The entry add_history was called for *)

\* C38: after add_history(p) the history holds an entry for the normalized
\* p.
C38_AddedEntryKept ==
    called = "add_history" =>
        Entries(history, normpath(strip_quotes(input.path))) # {}
====
